---- MODULE Spec2Model ----
(***************************************************************************)
(* Verification model of injective-indexer-rs.                             *)
(*                                                                         *)
(* Part I   the shared BatchKafkaProducer (grpc/src/producer.rs) driven by *)
(*          the stream ingester and the heartbeat (grpc/src/main.rs,       *)
(*          grpc/src/query_client.rs).                                     *)
(* Part II  the cache sink RedisProcessor                                  *)
(*          (injective-consumer/src/redis_consumer/mod.rs) with the        *)
(*          liquidation math of injective-consumer/src/compute/mod.rs.     *)
(*                                                                         *)
(* Each part has its own specification; the variables of the other part    *)
(* stay unchanged under it.                                                *)
(***************************************************************************)
EXTENDS Integers, Sequences, FiniteSets, TLC

(***************************************************************************)
(* Bounds of the model.                                                    *)
(***************************************************************************)
\* block heights range over 0..MaxHeight
MaxHeight == 2
\* longest batch a caller hands to send_batch_current_only
MaxBatchLen == 3
\* most envelopes one stream message is converted to
MaxStreamLen == 1

(***************************************************************************)
(* Program constants, scaled down so that the model reaches the cases      *)
(* (a batch longer than one chunk, more records than permits).             *)
(***************************************************************************)
\* producer.rs:13  const BATCH_SIZE: usize = 1000  (scaled to 2)
BATCH_SIZE == 2
\* producer.rs:12  const MAX_CONCURRENT_REQUESTS: usize = 100  (scaled to 2)
MAX_CONCURRENT_REQUESTS == 2

Heights == 0..MaxHeight

\* the two tasks of grpc/src/main.rs that share the Arc<BatchKafkaProducer>
\* "caller" stands for any single caller of the producer's public methods
Tasks == {"stream", "heartbeat", "caller", "low_latency"}

Max(a, b) == IF a >= b THEN a ELSE b

RECURSIVE SeqMax(_)
SeqMax(s) == IF s = <<>> THEN 0 ELSE Max(Head(s), SeqMax(Tail(s)))

\* all sequences over S of length lo..hi
SeqsOf(S, lo, hi) == UNION {[1..n -> S] : n \in lo..hi}

VARIABLES
    \* ---- Part I: producer ----
    latest_processed_block, \* AtomicU64 tracked tip
    request_limiter,        \* permits left in the Semaphore
    pc,                     \* per task: where it is inside the producer call
    messages,               \* per task: the batch passed in (a sequence of block heights)
    latest_block,           \* per task: the tip read at producer.rs:74
    idx,                    \* per task: next record the filter closure looks at
    upd,                    \* per task: argument of the update_latest_block call in progress
    current,                \* per task: the value loaded at producer.rs:50
    filtered_messages,      \* per task: accepted records, as indices into messages
    fut,                    \* per task: state of the per-record future of process_chunk
    results,                \* per task: the vector returned by the call
    block_height,           \* heartbeat: the height of the tick in progress
    maxPassed               \* largest height passed to a completed update_latest_block

prodVars == <<latest_processed_block, request_limiter, pc, messages, latest_block, idx,
              upd, current, filtered_messages, fut, results, block_height, maxPassed>>

VARIABLES
    \* ---- Part II: cache sink ----
    phase,                \* RedisProcessor.phase
    market_ids,           \* RedisProcessor.market_ids, the pending markets
    deferred_messages,    \* RedisProcessor.deferred_messages
    blocked,              \* the consumer task waits for the connection mutex it holds
    store,                \* the keys of the cache
    received,             \* number of non-market envelopes received so far
    processed,            \* ids of the envelopes process_non_market_message ran on, in order
    posWriteInMarkets,    \* a field of a position:* key was written while phase was Markets
    faults,               \* number of failed cache commands so far
    lastEvent             \* the last call of process_message: the envelope's type and
                          \* length, whether a command failed, the phase read at line 768

cacheVars == <<phase, market_ids, deferred_messages, blocked, store, received,
               processed, posWriteInMarkets, faults, lastEvent>>

VARIABLES
    \* ---- Part III: the tasks of the ingester process ----
    stream_state,     \* stream_and_process: "Connecting", "Streaming", "Exited", "Failed"
    shutdown_rx,      \* number of messages waiting in the shutdown channel
    ctrl_c,           \* the Ctrl+C task: "waiting" or "sent"
    main_state,       \* main: "joining" its two tasks or "returned"
    heartbeat_state,  \* ExchangeHeartbeat::start: "sleep" or the snapshot being sent
    snapshots,        \* what became of each snapshot of the last tick
    due               \* deadlines of the heartbeat's interval passed and not yet taken

lifeVars == <<stream_state, shutdown_rx, ctrl_c, main_state, heartbeat_state, snapshots, due>>

VARIABLES
    \* ---- Part IV: a sink's consumer ----
    polled,           \* number of envelopes received from the broker so far
    channel,          \* the envelopes waiting between the poll loop and the processor
    in_flight,        \* the envelope of the processor call in progress, 0 when none
    remaining,        \* per envelope: store mutations its spawned task has still to do
    mutations,        \* the store mutations done, each named by its envelope
    shutdown_signal,  \* the consumer's oneshot channel: "none", "sent", "observed"
    consumer_state,   \* the start routine: "polling", "stopping", "returned"
    handed,           \* number of envelopes handed to the processor
    kinds,            \* per record not yet handled: what its bytes are
    logged            \* the records an error was logged for

consVars == <<polled, channel, in_flight, remaining, mutations, shutdown_signal,
              consumer_state, handed, kinds, logged>>

VARIABLES
    \* ---- Part V: the market preloader ----
    preloader_state,    \* "none" before MarketPreloader::new, then "started"
    markets_processed,  \* MarketPreloader.markets_processed
    known_markets,      \* MarketPreloader.known_markets
    system_events       \* history: the markets_ready events handed to publish_event

preVars == <<preloader_state, markets_processed, known_markets, system_events>>

VARIABLES
    \* ---- Part VI: the pub/sub service ----
    config,             \* RedisPubSubService.config, NoConfig before new()
    pub_queue,          \* the bounded channel behind RedisPubSubService.pub_queue
    metrics,            \* PubSubMetrics: messages_published, publish_errors, queue_depth
    pub_connections,    \* handles in RedisPubSubService.pub_connections
    publishers,         \* per caller of publish_event: its place in the call, its message
    workers,            \* per publisher worker: its place in the loop, its message
    subscriber,         \* the subscriber task: its place in run_subscriber, its retry
                        \* locals, its event types and subscribed channels
    inbound,            \* messages the server sent on the subscriber's connection
    sub_channel,        \* the bounded channel between run_subscriber and next_event
    sub_log,            \* the subscriber's warnings and errors, counted by kind
    delivered,          \* history: the events run_subscriber put into sub_channel
    attempts_enqueued,  \* history: messages accepted into pub_queue
    publish_calls       \* history: events handed to the publish methods so far

pubVars == <<config, pub_queue, metrics, pub_connections, publishers, workers, subscriber,
             inbound, sub_channel, sub_log, delivered, attempts_enqueued, publish_calls>>

VARIABLES
    session,    \* the tables of the wide-column store
    lastWide    \* what the wide-column sink did with the last envelope

wideVars == <<session, lastWide>>

vars == <<prodVars, cacheVars, lifeVars, consVars, preVars, pubVars, wideVars>>

(***************************************************************************)
(* Part I.  BatchKafkaProducer                                             *)
(***************************************************************************)

\* producer.rs:42-47 (new) and the tasks before their first call
InitProducer ==
    /\ latest_processed_block = 0
    /\ request_limiter = MAX_CONCURRENT_REQUESTS
    /\ pc = [t \in Tasks |-> "idle"]
    /\ messages = [t \in Tasks |-> <<>>]
    /\ latest_block = [t \in Tasks |-> 0]
    /\ idx = [t \in Tasks |-> 1]
    /\ upd = [t \in Tasks |-> 0]
    /\ current = [t \in Tasks |-> 0]
    /\ filtered_messages = [t \in Tasks |-> <<>>]
    /\ fut = [t \in Tasks |-> <<>>]
    /\ results = [t \in Tasks |-> <<>>]
    /\ block_height = 0
    /\ maxPassed = 0

\* producer.rs:59-62
get_latest_block == latest_processed_block

\* producer.rs:50-52: the load of update_latest_block(h); the compare and the
\* store are a later step (update_latest_block_store), so another task can run
\* between them.
update_latest_block_load(t, h, ret) ==
    /\ upd' = [upd EXCEPT ![t] = h]
    /\ current' = [current EXCEPT ![t] = latest_processed_block]
    /\ pc' = [pc EXCEPT ![t] = ret]

\* producer.rs:53-56: the value the tip holds after the compare and store
StoredTip(h, cur, tip) == IF h > cur THEN h ELSE tip

\* as partition_messages, but with chunks_exact: a shorter last chunk is lost
RECURSIVE partition_messages_exact(_)
partition_messages_exact(s) ==
    IF Len(s) < BATCH_SIZE THEN <<>>
    ELSE <<SubSeq(s, 1, BATCH_SIZE)>>
            \o partition_messages_exact(SubSeq(s, BATCH_SIZE + 1, Len(s)))

\* producer.rs:168-175: chunks of BATCH_SIZE, the last one possibly shorter
RECURSIVE partition_messages(_)
partition_messages(s) ==
    IF s = <<>> THEN <<>>
    ELSE IF Len(s) <= BATCH_SIZE THEN <<s>>
    ELSE <<SubSeq(s, 1, BATCH_SIZE)>> \o partition_messages(SubSeq(s, BATCH_SIZE + 1, Len(s)))

\* as Accepted, but a record of the tip's own height is dropped
AcceptedStrict(h, latest) == h > latest

\* producer.rs:79-88: the filter closure's verdict on one record
Accepted(h, latest) == h > latest \/ h = latest

\* producer.rs:65-74: entry of send_batch_current_only; an empty batch returns
\* at once, otherwise the tip is read once for the whole call
send_batch_current_only(t) ==
    /\ pc[t] = "call"
    /\ IF messages[t] = <<>>
       THEN /\ pc' = [pc EXCEPT ![t] = "returned"]
            /\ UNCHANGED latest_block
       ELSE /\ pc' = [pc EXCEPT ![t] = "filter"]
            /\ latest_block' = [latest_block EXCEPT ![t] = get_latest_block]
    /\ UNCHANGED <<latest_processed_block, request_limiter, messages, idx, upd, current,
                   filtered_messages, fut, results, block_height, maxPassed>>

\* producer.rs:79-88: the closure on record idx. A record above the snapshot
\* calls update_latest_block (its load happens here), an equal one is kept, a
\* lower one is dropped.
FilterStep(t) ==
    /\ pc[t] = "filter"
    /\ idx[t] <= Len(messages[t])
    /\ LET h == messages[t][idx[t]] IN
       IF h > latest_block[t]
       THEN /\ update_latest_block_load(t, h, "upd_store")
            /\ UNCHANGED <<idx, filtered_messages>>
       ELSE /\ idx' = [idx EXCEPT ![t] = @ + 1]
            /\ filtered_messages' =
                  [filtered_messages EXCEPT ![t] =
                      IF Accepted(h, latest_block[t]) THEN Append(@, idx[t]) ELSE @]
            /\ UNCHANGED <<pc, upd, current>>
    /\ UNCHANGED <<latest_processed_block, request_limiter, messages, latest_block, fut,
                   results, block_height, maxPassed>>

\* producer.rs:53-56 reached from producer.rs:83-84: compare, store, and the
\* closure returns true
FilterUpdateStore(t) ==
    /\ pc[t] = "upd_store"
    /\ latest_processed_block' = StoredTip(upd[t], current[t], latest_processed_block)
    /\ maxPassed' = Max(maxPassed, upd[t])
    /\ filtered_messages' = [filtered_messages EXCEPT ![t] = Append(@, idx[t])]
    /\ idx' = [idx EXCEPT ![t] = @ + 1]
    /\ pc' = [pc EXCEPT ![t] = "filter"]
    /\ upd' = [upd EXCEPT ![t] = 0]
    /\ current' = [current EXCEPT ![t] = 0]
    /\ UNCHANGED <<request_limiter, messages, latest_block, fut, results, block_height>>

\* producer.rs:91-97 and 100-112: nothing left returns an empty vector,
\* otherwise send_batch creates one future per record
FilterDone(t) ==
    /\ pc[t] = "filter"
    /\ idx[t] > Len(messages[t])
    /\ IF filtered_messages[t] = <<>>
       THEN /\ pc' = [pc EXCEPT ![t] = "returned"]
            /\ UNCHANGED fut
       ELSE /\ pc' = [pc EXCEPT ![t] = "send"]
            /\ fut' = [fut EXCEPT ![t] = [i \in 1..Len(filtered_messages[t]) |-> "new"]]
    /\ UNCHANGED <<latest_processed_block, request_limiter, messages, latest_block, idx,
                   upd, current, filtered_messages, results, block_height, maxPassed>>

\* producer.rs:133-157: a future that gets a permit serializes its record and,
\* if that succeeds, hands it to the broker client; a record that does not
\* serialize completes at once with InvalidRecord and gives the permit back
Start(t, i, serOk) ==
    /\ pc[t] = "send"
    /\ i \in 1..Len(fut[t])
    /\ fut[t][i] = "new"
    /\ request_limiter > 0
    /\ IF serOk
       THEN /\ fut' = [fut EXCEPT ![t][i] = "inflight"]
            /\ request_limiter' = request_limiter - 1
       ELSE /\ fut' = [fut EXCEPT ![t][i] = "InvalidRecord"]
            /\ UNCHANGED request_limiter
    /\ UNCHANGED <<latest_processed_block, pc, messages, latest_block, idx, upd, current,
                   filtered_messages, results, block_height, maxPassed>>

\* producer.rs:144-148 and 158: the broker answers; the permit is dropped
Complete(t, i, ok) ==
    /\ pc[t] = "send"
    /\ i \in 1..Len(fut[t])
    /\ fut[t][i] = "inflight"
    /\ fut' = [fut EXCEPT ![t][i] = IF ok THEN "Ok" ELSE "BrokerErr"]
    /\ request_limiter' = request_limiter + 1
    /\ UNCHANGED <<latest_processed_block, pc, messages, latest_block, idx, upd, current,
                   filtered_messages, results, block_height,
                   maxPassed>>

Outcomes == {"Ok", "BrokerErr", "InvalidRecord"}

\* producer.rs:126-165: join_all gives the outcomes of a chunk in the order of
\* its futures. A chunk is a sequence of positions of filtered_messages; an
\* outcome is written with the record it is the outcome of.
process_chunk(chunk, filtered, f) ==
    [k \in 1..Len(chunk) |-> [rec |-> filtered[chunk[k]], outcome |-> f[chunk[k]]]]

RECURSIVE Flatten(_)
Flatten(ss) == IF ss = <<>> THEN <<>> ELSE Head(ss) \o Flatten(Tail(ss))

\* producer.rs:100-123: the result vector of send_batch
send_batch(filtered, f) ==
    LET chunks == partition_messages([i \in 1..Len(filtered) |-> i])
        chunk_results == [c \in 1..Len(chunks) |-> process_chunk(chunks[c], filtered, f)]
    IN  Flatten(chunk_results)

\* a join that gives up at the first failed future
JoinedUntilFailure(f) ==
    \/ \A i \in 1..Len(f) : f[i] \in Outcomes
    \/ \E i \in 1..Len(f) : f[i] \in {"BrokerErr", "InvalidRecord"}

\* producer.rs:115 and 161: join_all is ready when every future it holds is
Joined(f) == \A i \in 1..Len(f) : f[i] \in Outcomes

\* producer.rs:115-122: every future of every chunk is done, send_batch returns
SendReturn(t) ==
    /\ pc[t] = "send"
    /\ Joined(fut[t])
    /\ results' = [results EXCEPT ![t] = send_batch(filtered_messages[t], fut[t])]
    /\ pc' = [pc EXCEPT ![t] = "returned"]
    /\ fut' = [fut EXCEPT ![t] = <<>>]
    /\ UNCHANGED <<latest_processed_block, request_limiter, messages, latest_block, idx,
                   upd, current, filtered_messages, block_height, maxPassed>>

\* the steps of a send_batch_current_only call, for the task that made it
ProducerStep(t) ==
    \/ send_batch_current_only(t)
    \/ FilterStep(t)
    \/ FilterUpdateStore(t)
    \/ FilterDone(t)
    \/ \E i \in 1..MaxBatchLen, serOk \in BOOLEAN : Start(t, i, serOk)
    \/ \E i \in 1..MaxBatchLen, ok \in BOOLEAN : Complete(t, i, ok)
    \/ SendReturn(t)

Free(t) == pc[t] \in {"idle", "returned"}

\* a task starts its next producer call with batch: the locals of its last call
\* are gone
NewCall(t, batch, to) ==
    /\ messages' = [messages EXCEPT ![t] = batch]
    /\ latest_block' = [latest_block EXCEPT ![t] = 0]
    /\ idx' = [idx EXCEPT ![t] = 1]
    /\ filtered_messages' = [filtered_messages EXCEPT ![t] = <<>>]
    /\ fut' = [fut EXCEPT ![t] = <<>>]
    /\ results' = [results EXCEPT ![t] = <<>>]
    /\ pc' = [pc EXCEPT ![t] = to]

\* main.rs:203-217 and 241-251: a stream message of height h that yields n
\* envelopes, all of height h (models.rs:219-222). The ingester skips it when h
\* is below the tip it reads, otherwise hands the envelopes to
\* send_batch_current_only.
StreamRecv(h, n) ==
    /\ Free("stream")
    /\ IF h >= get_latest_block
       THEN NewCall("stream", [i \in 1..n |-> h], IF n = 0 THEN "returned" ELSE "call")
       ELSE NewCall("stream", <<>>, "returned")
    /\ UNCHANGED <<latest_processed_block, request_limiter, upd, current, block_height,
                   maxPassed>>

\* query_client.rs:194-210: a tick reads the chain height; on success it
\* updates the producer's tip (the load happens here), on failure it uses the
\* producer's tip
HeartbeatTick(h, ok) ==
    /\ Free("heartbeat")
    /\ IF ok
       THEN /\ block_height' = h
            /\ upd' = [upd EXCEPT !["heartbeat"] = h]
            /\ current' = [current EXCEPT !["heartbeat"] = latest_processed_block]
            /\ NewCall("heartbeat", <<>>, "hb_store")
       ELSE /\ block_height' = get_latest_block
            /\ NewCall("heartbeat", <<get_latest_block>>, "call")
            /\ UNCHANGED <<upd, current>>
    /\ UNCHANGED <<latest_processed_block, request_limiter, maxPassed>>

\* producer.rs:53-56 reached from query_client.rs:202, then the snapshot
\* envelope of the tick goes to send_batch_current_only as a batch of one
\* (query_client.rs:351)
HeartbeatUpdateStore ==
    /\ pc["heartbeat"] = "hb_store"
    /\ latest_processed_block' =
          StoredTip(upd["heartbeat"], current["heartbeat"], latest_processed_block)
    /\ maxPassed' = Max(maxPassed, upd["heartbeat"])
    /\ messages' = [messages EXCEPT !["heartbeat"] = <<block_height>>]
    /\ pc' = [pc EXCEPT !["heartbeat"] = "call"]
    /\ upd' = [upd EXCEPT !["heartbeat"] = 0]
    /\ current' = [current EXCEPT !["heartbeat"] = 0]
    /\ UNCHANGED <<request_limiter, latest_block, idx, filtered_messages, fut, results,
                   block_height>>

\* any batch handed to send_batch_current_only by a single caller
CallerCall(batch) ==
    /\ Free("caller")
    /\ NewCall("caller", batch, "call")
    /\ UNCHANGED <<latest_processed_block, request_limiter, upd, current, block_height,
                   maxPassed>>

\* producer.rs:178-184: send_batch_low_latency on an empty batch returns at once
send_batch_low_latency(t) ==
    /\ pc[t] = "ll_call"
    /\ IF messages[t] = <<>>
       THEN /\ pc' = [pc EXCEPT ![t] = "returned"]
            /\ UNCHANGED fut
       ELSE /\ pc' = [pc EXCEPT ![t] = "ll_send"]
            /\ fut' = [fut EXCEPT ![t] = [i \in 1..Len(messages[t]) |-> "new"]]
    /\ UNCHANGED <<latest_processed_block, request_limiter, messages, latest_block, idx,
                   upd, current, filtered_messages, results, block_height, maxPassed>>

\* producer.rs:186-203: the loop takes the next record, serializes it and hands
\* it to the broker client; no permit of request_limiter is taken
LowLatencyStart(t, serOk) ==
    /\ pc[t] = "ll_send"
    /\ idx[t] <= Len(fut[t])
    /\ fut[t][idx[t]] = "new"
    /\ IF serOk
       THEN /\ fut' = [fut EXCEPT ![t][idx[t]] = "inflight"]
            /\ UNCHANGED idx
       ELSE /\ fut' = [fut EXCEPT ![t][idx[t]] = "InvalidRecord"]
            /\ idx' = [idx EXCEPT ![t] = @ + 1]
    /\ UNCHANGED <<latest_processed_block, request_limiter, pc, messages, latest_block,
                   upd, current, filtered_messages, results, block_height, maxPassed>>

\* producer.rs:191-195 and 204: the send is awaited before the next record
LowLatencyComplete(t, ok) ==
    /\ pc[t] = "ll_send"
    /\ idx[t] <= Len(fut[t])
    /\ fut[t][idx[t]] = "inflight"
    /\ fut' = [fut EXCEPT ![t][idx[t]] = IF ok THEN "Ok" ELSE "BrokerErr"]
    /\ idx' = [idx EXCEPT ![t] = @ + 1]
    /\ UNCHANGED <<latest_processed_block, request_limiter, pc, messages, latest_block,
                   upd, current, filtered_messages, results, block_height, maxPassed>>

\* producer.rs:207
LowLatencyReturn(t) ==
    /\ pc[t] = "ll_send"
    /\ idx[t] > Len(fut[t])
    /\ results' = [results EXCEPT ![t] =
                      [k \in 1..Len(fut[t]) |-> [rec |-> k, outcome |-> fut[t][k]]]]
    /\ fut' = [fut EXCEPT ![t] = <<>>]
    /\ pc' = [pc EXCEPT ![t] = "returned"]
    /\ UNCHANGED <<latest_processed_block, request_limiter, messages, latest_block, idx,
                   upd, current, filtered_messages, block_height, maxPassed>>

\* a caller of the producer's low-latency entry point, with a batch of n records
LowLatencyCall(n) ==
    /\ Free("low_latency")
    /\ NewCall("low_latency", [i \in 1..n |-> 0], "ll_call")
    /\ UNCHANGED <<latest_processed_block, request_limiter, upd, current, block_height,
                   maxPassed>>

\* the ingester and the heartbeat sharing the producer (main.rs:51-95)
NextProducer ==
    /\ \/ \E h \in Heights, n \in 0..MaxStreamLen : StreamRecv(h, n)
       \/ \E h \in Heights, ok \in BOOLEAN : HeartbeatTick(h, ok)
       \/ HeartbeatUpdateStore
       \/ \E t \in {"stream", "heartbeat"} : ProducerStep(t)
    /\ UNCHANGED <<wideVars, pubVars, cacheVars, lifeVars, consVars, preVars>>

\* one caller alone, with batches of any heights
NextCall ==
    /\ \/ \E batch \in SeqsOf(Heights, 0, MaxBatchLen) : CallerCall(batch)
       \/ ProducerStep("caller")
    /\ UNCHANGED <<wideVars, pubVars, cacheVars, lifeVars, consVars, preVars>>

\* the producer's two entry points used at once: one caller of
\* send_batch_current_only and one of send_batch_low_latency
NextApi ==
    /\ \/ \E batch \in SeqsOf(Heights, 0, MaxBatchLen - 1) : CallerCall(batch)
       \/ ProducerStep("caller")
       \/ \E n \in 0..MaxBatchLen : LowLatencyCall(n)
       \/ send_batch_low_latency("low_latency")
       \/ \E serOk \in BOOLEAN : LowLatencyStart("low_latency", serOk)
       \/ \E ok \in BOOLEAN : LowLatencyComplete("low_latency", ok)
       \/ LowLatencyReturn("low_latency")
    /\ UNCHANGED <<wideVars, pubVars, cacheVars, lifeVars, consVars, preVars>>

(***************************************************************************)
(* Claims about the producer                                               *)
(***************************************************************************)

\* the records of task t's call that have been handed to the broker client
Submitted(t) == {i \in 1..Len(fut[t]) : fut[t][i] \in {"inflight", "Ok", "BrokerErr"}}

\* C1: every record handed to the broker has block_height >= the tracked tip
\* at the moment it is handed over, for the ingester and the heartbeat
\* calling send_batch_current_only concurrently.
C1_EmitNotBelowTip ==
    [][\A t \in Tasks :
          \A i \in 1..Len(fut[t]) :
              (pc'[t] = "send" /\ fut[t][i] = "new" /\ fut'[t][i] = "inflight")
                  => messages[t][filtered_messages[t][i]] >= latest_processed_block]_vars

\* C8: when no update_latest_block call is between its load and its store,
\* the tip is the maximum of its initial value and every height passed so far.
C8_TipIsMaxOfPassed ==
    (\A t \in Tasks : pc[t] \notin {"upd_store", "hb_store"})
        => latest_processed_block = maxPassed

\* the positions of the records of batch whose height is at least T, in order
RECURSIVE KeptFrom(_, _, _)
KeptFrom(batch, T, i) ==
    IF i > Len(batch) THEN <<>>
    ELSE (IF batch[i] >= T THEN <<i>> ELSE <<>>) \o KeptFrom(batch, T, i + 1)

\* C9: a send_batch_current_only call made with tip T sends exactly the input
\* records of height >= T and leaves the tip at max(T, largest input height);
\* with every record below T nothing is sent and the tip stays T. Heights are
\* only compared, so tip 1000 with heights 999, 1000, 1001 is tip 1 with
\* heights 0, 1, 2: two records are sent and the tip ends at 2.
C9_FilterAndTip ==
    (pc["caller"] = "returned" /\ messages["caller"] # <<>>) =>
        LET T    == latest_block["caller"]
            keep == KeptFrom(messages["caller"], T, 1)
        IN  /\ filtered_messages["caller"] = keep
            /\ Len(results["caller"]) = Len(keep)
            /\ latest_processed_block = Max(T, SeqMax(messages["caller"]))
            /\ (keep = <<>> => results["caller"] = <<>> /\ latest_processed_block = T)
            /\ (messages["caller"] = <<0, 1, 2>> /\ T = 1 =>
                    Len(results["caller"]) = 2 /\ latest_processed_block = 2)

\* a call with tip 1 and heights 0, 1, 2 has returned
C9_Witness ==
    /\ pc["caller"] = "returned"
    /\ messages["caller"] = <<0, 1, 2>>
    /\ latest_block["caller"] = 1
    /\ Len(results["caller"]) = 2

\* C10: send_batch returns one outcome per record it was given, and outcome k
\* is the outcome of record k, in whatever order the submissions complete and
\* with the records split into chunks of BATCH_SIZE.
C10_OutcomePerRecord ==
    pc["caller"] = "returned" =>
        /\ Len(results["caller"]) = Len(filtered_messages["caller"])
        /\ \A k \in 1..Len(results["caller"]) :
               /\ results["caller"][k].rec = filtered_messages["caller"][k]
               /\ results["caller"][k].outcome \in Outcomes

\* a call with more records than one chunk has returned, the broker having
\* failed the first record and accepted the last
C10_Witness ==
    /\ pc["caller"] = "returned"
    /\ Len(results["caller"]) > BATCH_SIZE
    /\ results["caller"][1].outcome = "BrokerErr"
    /\ results["caller"][Len(results["caller"])].outcome = "Ok"

\* C12: a record that fails to serialize or that the broker refuses gets a
\* failure outcome and changes nothing for the other records of the batch: each
\* of them is still submitted and gets its own outcome, and send_batch returns
\* only with an outcome for every record, never an error for the whole batch.
C12_FailureIsPerRecord ==
    [][LET f == fut["caller"]
           g == fut'["caller"]
           Failures == {"BrokerErr", "InvalidRecord"}
       IN  pc["caller"] = "send" =>
             /\ pc'["caller"] \in {"send", "returned"}
             /\ pc'["caller"] = "send" =>
                   /\ Len(g) = Len(f)
                   /\ \A j \in 1..Len(f) :
                          /\ (g[j] \in Failures /\ f[j] \notin Failures) =>
                                 \A i \in 1..Len(f) \ {j} : g[i] = f[i]
                          /\ (g[j] \in {"Ok", "BrokerErr"} /\ g[j] # f[j]) =>
                                 f[j] = "inflight"
                          /\ f[j] \in Outcomes => g[j] = f[j]
             /\ pc'["caller"] = "returned" =>
                   /\ \A i \in 1..Len(f) : f[i] \in Outcomes
                   /\ Len(results'["caller"]) = Len(f)
                   /\ \A k \in 1..Len(f) : results'["caller"][k].outcome = f[k]
      ]_vars

\* a call has returned whose first record failed to serialize, whose second
\* record the broker refused and whose third record was accepted
C12_Witness ==
    /\ pc["caller"] = "returned"
    /\ Len(results["caller"]) = 3
    /\ results["caller"][1].outcome = "InvalidRecord"
    /\ results["caller"][2].outcome = "BrokerErr"
    /\ results["caller"][3].outcome = "Ok"

\* C13: once the ingester has handled a stream message that it forwarded to
\* send_batch_current_only with at least one envelope, the tip is at least the
\* height of that message.
C13_TipCoversHandledMessage ==
    (pc["stream"] = "returned" /\ messages["stream"] # <<>>) =>
        latest_processed_block >= messages["stream"][1]

\* the submissions handed to the broker client and not answered yet
InFlight ==
    LET n(t) == Cardinality({i \in 1..Len(fut[t]) : fut[t][i] = "inflight"})
    IN  n("stream") + n("heartbeat") + n("caller") + n("low_latency")

\* C11: at most MAX_CONCURRENT_REQUESTS submissions are in flight, over all
\* callers of the producer, and each of them holds a permit of request_limiter.
C11_InFlightWithinPermits ==
    /\ InFlight <= MAX_CONCURRENT_REQUESTS
    /\ InFlight + request_limiter = MAX_CONCURRENT_REQUESTS

(***************************************************************************)
(* Part II.  The cache sink: RedisProcessor and the liquidation math       *)
(***************************************************************************)

MarketIds == {"m1", "m2"}
SubaccountIds == {"s1", "s2"}
PosKeys == MarketIds \X SubaccountIds

\* a hash field that is not there
Absent == 0 - 1
\* liquidation_price is kept as an exact fraction <<numerator, denominator>>
\* with a positive denominator; the field being missing is <<0, 0>>
NoPrice == <<0, 0>>

\* the values the decimal strings of the payloads parse to. A ratio is in
\* hundredths (50 is 0.50), which keeps the arithmetic of compute/mod.rs exact.
MarkPrices == {4, 6}
MarginRatios == {50}
Fundings == {0}

\* redis_consumer/mod.rs:68-72 and 438: maintenance_margin_ratio.unwrap_or(0.05)
DefaultMarginRatio == 5

MarketPayloads ==
    [market_id : MarketIds, mark_price : MarkPrices,
     maintenance_margin_ratio : MarginRatios, cumulative_funding : Fundings]

\* a long and a short position whose liquidation prices are 4 and 6 under
\* the margin ratio 0.50, and a closed position (quantity 0)
PositionShapes ==
    { [is_long |-> TRUE,  quantity |-> 1, entry_price |-> 4, margin |-> 2,
       cumulative_funding_entry |-> 0],
      [is_long |-> FALSE, quantity |-> 1, entry_price |-> 7, margin |-> 2,
       cumulative_funding_entry |-> 0],
      [is_long |-> TRUE,  quantity |-> 0, entry_price |-> 4, margin |-> 2,
       cumulative_funding_entry |-> 0] }

PositionPayloads ==
    { [market_id |-> k[1], subaccount_id |-> k[2], is_long |-> sh.is_long,
       quantity |-> sh.quantity, entry_price |-> sh.entry_price, margin |-> sh.margin,
       cumulative_funding_entry |-> sh.cumulative_funding_entry]
        : k \in PosKeys, sh \in PositionShapes }

\* compute/mod.rs:2-40, on exact fractions: with r the ratio in hundredths,
\*   long   (entry - adj/q) / (1 - r/100) = 100 (entry q - adj) / (q (100 - r))
\*   short  (entry + adj/q) / (1 + r/100) = 100 (entry q + adj) / (q (100 + r))
calculate_liquidation_price(is_long, entry_price, margin, quantity, maintenance_margin_ratio, market_cumulative_funding, position_cumulative_funding_entry) ==
    IF quantity <= 0 \/ entry_price <= 0 \/ maintenance_margin_ratio <= 0
    THEN <<0, 1>>
    ELSE LET unrealized_funding_payment ==
                 quantity * (market_cumulative_funding - position_cumulative_funding_entry)
             adjusted_margin == IF is_long THEN margin - unrealized_funding_payment
                                           ELSE margin + unrealized_funding_payment
         IN  IF is_long
             THEN <<100 * (entry_price * quantity - adjusted_margin),
                    quantity * (100 - maintenance_margin_ratio)>>
             ELSE <<100 * (entry_price * quantity + adjusted_margin),
                    quantity * (100 + maintenance_margin_ratio)>>

\* compute/mod.rs:42-50
is_liquidatable(is_long, liquidation_price, mark_price) ==
    IF is_long THEN mark_price * liquidation_price[2] <= liquidation_price[1]
               ELSE mark_price * liquidation_price[2] >= liquidation_price[1]

\* bool::to_string and str::parse::<bool>().unwrap_or(false)
BoolToString(b) == IF b THEN "true" ELSE "false"
ParseBool(str) == str = "true"

\* a key of the cache that holds no hash
NoMarket == [exists |-> FALSE, mark_price |-> Absent,
             maintenance_margin_ratio |-> Absent, cumulative_funding |-> Absent]
NoPosition == [is_long |-> "nil", quantity |-> Absent, entry_price |-> Absent,
               margin |-> Absent, cumulative_funding_entry |-> Absent,
               liquidation_price |-> NoPrice, is_liquidatable |-> "nil"]

\* the cache with no key
EmptyStore ==
    [market |-> [m \in MarketIds |-> NoMarket],
     markets_derivative |-> {},
     markets_ready |-> "nil",
     processing_phase |-> "nil",
     position |-> [k \in PosKeys |-> NoPosition],
     positions_market |-> [m \in MarketIds |-> {}],
     positions_subaccount |-> [a \in SubaccountIds |-> {}],
     liquidatable_positions |-> {}]

\* the cache an earlier run of the sink left behind: one market and one long
\* position on it that is not liquidatable at the market's mark price
PersistedStore ==
    [EmptyStore EXCEPT
        !.market["m1"] = [exists |-> TRUE, mark_price |-> 6,
                          maintenance_margin_ratio |-> 50, cumulative_funding |-> 0],
        !.markets_derivative = {"m1"},
        !.markets_ready = "true",
        !.position[<<"m1", "s1">>] =
            [is_long |-> "true", quantity |-> 1, entry_price |-> 4, margin |-> 2,
             cumulative_funding_entry |-> 0,
             liquidation_price |-> calculate_liquidation_price(TRUE, 4, 2, 1, 50, 0, 0),
             is_liquidatable |-> "false"],
        !.positions_market["m1"] = {"s1"},
        !.positions_subaccount["s1"] = {"m1"}]

InitStores == {EmptyStore, PersistedStore}

\* Bounds of the cache sink's runs
MaxEnvelopes == 2
MaxEnvMarkets == 2
MaxEnvPositions == 1
MaxFaults == 1

\* A command of the cache connection that fails: within one call of
\* process_message the first execution of the named command returns Err
MarketFaults ==
    {"market_hset_ticker", "market_hset_mark_price",
     "market_hset_maintenance_margin_ratio", "market_sadd_markets",
     "set_markets_ready", "smembers"}
ReevaluationFaults ==
    {"re_hset_liquidation_price", "re_hset_is_liquidatable", "re_sadd", "re_srem",
     "re_publish"}
PositionFaults ==
    {"pos_exists", "pos_hget_mark_price", "pos_hset_quantity",
     "pos_hset_liquidation_price", "pos_sadd_positions_market",
     "pos_hset_is_liquidatable", "pos_sadd", "pos_srem"}
NoFault == "none"

NoEvent == [kind |-> "none", count |-> 0, failed |-> FALSE, phase |-> "Markets",
            alerts |-> <<>>, awaited_under_lock |-> FALSE, invalid |-> {}, no_market |-> {},
            stored |-> {}, mismatch |-> FALSE, batch_events |-> 0]

\* redis_consumer/mod.rs:35-47
InitCache ==
    /\ phase = "Markets"
    /\ market_ids = {}
    /\ deferred_messages = <<>>
    /\ blocked = FALSE
    /\ store \in InitStores
    /\ received = 0
    /\ processed = <<>>
    /\ posWriteInMarkets = FALSE
    /\ faults = 0
    /\ lastEvent = NoEvent

\* the state one call of process_message works on
Ctx(fault) ==
    [phase |-> phase, market_ids |-> market_ids, deferred_messages |-> deferred_messages,
     blocked |-> blocked, store |-> store, processed |-> processed,
     posWriteInMarkets |-> posWriteInMarkets,
     err |-> FALSE, fault |-> fault, failed |-> FALSE,
     conn_held |-> FALSE, awaited_under_lock |-> FALSE,
     liquidation_events |-> <<>>, alerts |-> <<>>, invalid |-> {}, no_market |-> {},
     stored |-> {}, batch_events |-> 0]

\* a command whose Err is propagated with `?`: nothing after it runs
Cmd(c, o, eff) ==
    IF c.err \/ c.blocked THEN c
    ELSE IF c.fault = o
         THEN [c EXCEPT !.err = TRUE, !.failed = TRUE, !.fault = NoFault]
         ELSE eff

\* a read whose Err is matched to a default value
ReadFails(c, o) == c.fault = o
AfterRead(c, o) ==
    IF c.fault = o THEN [c EXCEPT !.failed = TRUE, !.fault = NoFault] ELSE c

\* an error that is logged, not returned
Logged(c) == [c EXCEPT !.err = FALSE]

\* HSET of one field of position:{market_id}:{subaccount_id}
HsetPosition(c, k, field, value) ==
    [c EXCEPT !.store.position[k][field] = value,
              !.posWriteInMarkets = @ \/ c.phase = "Markets"]

\* the update of liquidatable_positions that follows the write of the flag:
\* SADD and PUBLISH when liquidatable, SREM when not
LiquidatableSetUpdate(c, k, liquidatable, sadd, srem, publish) ==
    IF liquidatable
    THEN LET c1 == Cmd(c, sadd, [c EXCEPT !.store.liquidatable_positions = @ \cup {k}])
         IN  Cmd(c1, publish, c1)
    ELSE Cmd(c, srem, [c EXCEPT !.store.liquidatable_positions = @ \ {k}])

\* self.connection.lock().await, and the guard going out of scope
LockConnection(c) == IF c.err \/ c.blocked THEN c ELSE [c EXCEPT !.conn_held = TRUE]
DropConnection(c) == IF c.blocked THEN c ELSE [c EXCEPT !.conn_held = FALSE]

\* pubsub.publish_event(..).await or pubsub.publish_events_batch(..).await:
\* the sink waits for the pub/sub service, with or without the guard alive
AwaitPublish(c) ==
    IF c.err \/ c.blocked THEN c
    ELSE [c EXCEPT !.awaited_under_lock = @ \/ c.conn_held]

\* the LiquidationAlert events of keys handed to the pub/sub service
PublishAlerts(c, keys) ==
    IF c.err \/ c.blocked THEN c
    ELSE [AwaitPublish(c) EXCEPT !.alerts = @ \o keys]

\* as InvalidPositionData, but no input is turned away
NeverInvalid(quantity, entry_price, margin) == FALSE

\* redis_consumer/mod.rs:416 and 223
InvalidPositionData(quantity, entry_price, margin) ==
    quantity <= 0 \/ entry_price <= 0 \/ margin <= 0

\* as MarketMissing, but the position is processed without its market
MarketAssumed(market) == FALSE

\* redis_consumer/mod.rs:393-395: EXISTS market:derivative:{id} is false
MarketMissing(market) == ~market.exists

\* redis_consumer/mod.rs:379-590
process_position(c, position) ==
    LET m == position.market_id
        k == <<position.market_id, position.subaccount_id>>
        c0 == LockConnection(c)
        c1 == Cmd(c0, "pos_exists", c0)
        market == c.store.market[m]
    IN  IF c1.err THEN DropConnection(c1)
        ELSE IF MarketMissing(market)
        THEN DropConnection([c1 EXCEPT !.no_market = @ \cup {k}])
        ELSE IF InvalidPositionData(position.quantity, position.entry_price, position.margin)
        THEN DropConnection([c1 EXCEPT !.invalid = @ \cup {k}])
        ELSE
        LET mark_price == IF ReadFails(c1, "pos_hget_mark_price") \/ market.mark_price = Absent
                          THEN 0 ELSE market.mark_price
            c2 == AfterRead(c1, "pos_hget_mark_price")
            maintenance_margin_ratio ==
                IF market.maintenance_margin_ratio = Absent THEN DefaultMarginRatio
                ELSE market.maintenance_margin_ratio
            market_cumulative_funding ==
                IF market.cumulative_funding = Absent THEN 0 ELSE market.cumulative_funding
            liquidation_price ==
                calculate_liquidation_price(position.is_long, position.entry_price,
                    position.margin, position.quantity, maintenance_margin_ratio,
                    market_cumulative_funding, position.cumulative_funding_entry)
            c3 == [HsetPosition(c2, k, "is_long", BoolToString(position.is_long))
                      EXCEPT !.stored = @ \cup {k}]
            c4 == Cmd(c3, "pos_hset_quantity",
                      HsetPosition(HsetPosition(HsetPosition(HsetPosition(c3,
                          k, "quantity", position.quantity),
                          k, "entry_price", position.entry_price),
                          k, "margin", position.margin),
                          k, "cumulative_funding_entry", position.cumulative_funding_entry))
            c5 == Cmd(c4, "pos_hset_liquidation_price",
                      HsetPosition(c4, k, "liquidation_price", liquidation_price))
            c6 == Cmd(c5, "pos_sadd_positions_market",
                      [c5 EXCEPT !.store.positions_market[m] = @ \cup {position.subaccount_id}])
            c7 == IF c6.err THEN c6
                  ELSE [c6 EXCEPT !.store.positions_subaccount[position.subaccount_id] =
                                        @ \cup {m}]
            liquidatable == is_liquidatable(position.is_long, liquidation_price, mark_price)
            c8 == Cmd(c7, "pos_hset_is_liquidatable",
                      HsetPosition(c7, k, "is_liquidatable", BoolToString(liquidatable)))
            c9 == LiquidatableSetUpdate(c8, k, liquidatable, "pos_sadd", "pos_srem",
                                        "pos_publish")
        IN  DropConnection(IF liquidatable THEN PublishAlerts(c9, <<k>>) ELSE c9)

\* redis_consumer/mod.rs:163-340, the body of the loop for one subaccount; the
\* loop's `continue` leaves the state as it is
ReevaluatePosition(c, market, subaccount_id) ==
    LET k == <<market.market_id, subaccount_id>>
        rec == c.store.position[k]
    IN  IF \/ rec.is_long = "nil" \/ rec.quantity = Absent
           \/ rec.entry_price = Absent \/ rec.margin = Absent
        THEN c
        ELSE
        LET is_long == ParseBool(rec.is_long)
            cumulative_funding_entry ==
                IF rec.cumulative_funding_entry = Absent THEN 0
                ELSE rec.cumulative_funding_entry
        IN  IF InvalidPositionData(rec.quantity, rec.entry_price, rec.margin) THEN c
            ELSE
            LET liquidation_price ==
                    calculate_liquidation_price(is_long, rec.entry_price, rec.margin,
                        rec.quantity, market.maintenance_margin_ratio,
                        market.cumulative_funding, cumulative_funding_entry)
                c1 == Cmd(c, "re_hset_liquidation_price",
                          HsetPosition(c, k, "liquidation_price", liquidation_price))
                liquidatable == is_liquidatable(is_long, liquidation_price, market.mark_price)
                c2 == Cmd(c1, "re_hset_is_liquidatable",
                          HsetPosition(c1, k, "is_liquidatable", BoolToString(liquidatable)))
                \* the PositionUpdate is awaited; the alert joins the batch
                c3 == AwaitPublish(c2)
                c4 == IF c3.err \/ ~liquidatable THEN c3
                      ELSE [c3 EXCEPT !.liquidation_events = Append(@, k)]
            IN  LiquidatableSetUpdate(c4, k, liquidatable, "re_sadd", "re_srem", "re_publish")

\* redis_consumer/mod.rs:163: for subaccount_id in subaccount_ids, in the
\* order SMEMBERS returned them
RECURSIVE ReevaluatePositions(_, _, _)
ReevaluatePositions(c, market, subaccount_ids) ==
    IF subaccount_ids = <<>> \/ c.err THEN c
    ELSE ReevaluatePositions(ReevaluatePosition(c, market, Head(subaccount_ids)),
                             market, Tail(subaccount_ids))

\* the members of a set in the order order lists them
RECURSIVE Listed(_, _)
Listed(set, order) ==
    IF order = <<>> THEN <<>>
    ELSE IF Head(order) \in set THEN <<Head(order)>> \o Listed(set, Tail(order))
         ELSE Listed(set, Tail(order))

SubaccountOrders ==
    {o \in [1..Cardinality(SubaccountIds) -> SubaccountIds] :
        \A i, j \in DOMAIN o : i # j => o[i] # o[j]}

\* redis_consumer/mod.rs:612-635: an Err of process_position is logged
RECURSIVE ProcessPositions(_, _)
ProcessPositions(c, positions) ==
    IF positions = <<>> THEN c
    ELSE ProcessPositions(Logged(process_position(c, Head(positions))), Tail(positions))

\* redis_consumer/mod.rs:592-759. An envelope is [message_type, type, id,
\* payload]: message_type is the field of that name and type names the variant
\* of the payload. A position envelope with another payload goes to the manual
\* deserialization, which refuses the JSON of any other variant and logs; every
\* other envelope is handled by the variant of its payload alone: trades and
\* order books become one call of publish_events_batch when there are any.
process_non_market_message(c, message) ==
    LET c1 == [c EXCEPT !.processed = Append(@, message.id)]
    IN  IF message.message_type = "ExchangePosition"
        THEN IF message.type = "ExchangePosition"
             THEN ProcessPositions(c1, message.payload)
             ELSE c1
        ELSE IF message.type \in {"DerivativeTrade", "StreamDerivativeOrderbook"}
                /\ message.payload # <<>>
             THEN [c1 EXCEPT !.batch_events = @ + Len(message.payload)]
             ELSE c1

RECURSIVE ProcessQueued(_, _)
ProcessQueued(c, queued) ==
    IF queued = <<>> THEN c
    ELSE ProcessQueued(Logged(process_non_market_message(c, Head(queued))),
                       Tail(queued))

\* redis_consumer/mod.rs:355-376
process_queued_messages(c) ==
    ProcessQueued([c EXCEPT !.deferred_messages = <<>>], c.deferred_messages)

\* as PhaseOnLastMarket, but the phase flips
PhaseToggled(p) == IF p = "Markets" THEN "Others" ELSE "Markets"

\* redis_consumer/mod.rs:109-111: the phase written when market_ids is empty
PhaseOnLastMarket(p) == "Others"

\* redis_consumer/mod.rs:55-352. The guard of the connection mutex taken at
\* line 62 is dropped at line 117 only where market_ids is empty; elsewhere it
\* is alive at line 157, where the task locks the same mutex and waits for ever.
process_derivative_market(c, market, order) ==
    LET m == market.market_id
        c0 == LockConnection(c)
        c1 == Cmd(c0, "market_hset_ticker", [c0 EXCEPT !.store.market[m].exists = TRUE])
        c2 == Cmd(c1, "market_hset_mark_price",
                  [c1 EXCEPT !.store.market[m].mark_price = market.mark_price])
        c3 == Cmd(c2, "market_hset_maintenance_margin_ratio",
                  [c2 EXCEPT !.store.market[m].maintenance_margin_ratio =
                                 market.maintenance_margin_ratio,
                             !.store.market[m].cumulative_funding =
                                 market.cumulative_funding])
        c4 == Cmd(c3, "market_sadd_markets",
                  [c3 EXCEPT !.store.markets_derivative = @ \cup {m}])
    IN  IF c4.err THEN DropConnection(c4)
        ELSE
        LET c5 == [c4 EXCEPT !.market_ids = @ \ {m}]
        IN  IF c5.market_ids = {}
            THEN LET c6 == [c5 EXCEPT !.phase = PhaseOnLastMarket(@)]
                     c7 == Cmd(c6, "set_markets_ready",
                               [c6 EXCEPT !.store.markets_ready = "true"])
                 IN  IF c7.err THEN DropConnection(c7)
                     ELSE LET c8 == process_queued_messages(DropConnection(c7))
                              \* the MarketUpdate and the PriceUpdate, then line 157
                              c9 == LockConnection(AwaitPublish(c8))
                              c10 == Cmd(c9, "smembers",
                                         [c9 EXCEPT !.liquidation_events = <<>>])
                              c11 == ReevaluatePositions(c10, market,
                                         Listed(c10.store.positions_market[m], order))
                          IN  DropConnection(
                                  IF c11.liquidation_events # <<>>
                                  THEN PublishAlerts(c11, c11.liquidation_events)
                                  ELSE c11)
            ELSE [AwaitPublish(c5) EXCEPT !.blocked = TRUE]

\* redis_consumer/mod.rs:807-829: an Err of process_derivative_market is logged
RECURSIVE ProcessMarkets(_, _, _)
ProcessMarkets(c, markets, order) ==
    IF markets = <<>> \/ c.blocked THEN c
    ELSE ProcessMarkets(Logged(process_derivative_market(c, Head(markets), order)),
                        Tail(markets), order)

\* as Deferred, but nothing is deferred
DeferredNever(p) == FALSE

\* redis_consumer/mod.rs:838-846: a non-market envelope is deferred
Deferred(p) == p = "Markets"

\* redis_consumer/mod.rs:763-880
process_message(c, message, order) ==
    IF message.message_type = "DerivativeMarket"
    THEN IF message.type = "DerivativeMarket"
         THEN ProcessMarkets(
                  [c EXCEPT !.market_ids =
                      @ \cup {message.payload[i].market_id : i \in DOMAIN message.payload}],
                  message.payload, order)
         ELSE c
    ELSE IF Deferred(c.phase)
         THEN [c EXCEPT !.deferred_messages = Append(@, message)]
         ELSE process_non_market_message(c, message)

MarketEnvelopes ==
    {[message_type |-> "DerivativeMarket", type |-> "DerivativeMarket", id |-> 0,
      payload |-> p] :
        p \in SeqsOf(MarketPayloads, 1, MaxEnvMarkets)}
PositionEnvelopes ==
    {[message_type |-> "ExchangePosition", type |-> "ExchangePosition", id |-> n,
      payload |-> p] :
        n \in 1..MaxEnvelopes, p \in SeqsOf(PositionPayloads, 1, MaxEnvPositions)}
\* the envelopes of one market
SingleMarketEnvelopes == {e \in MarketEnvelopes : Len(e.payload) = 1}
\* the envelopes of several positions
MaxPairPositions == 2
LongPositionPayloads == {p \in PositionPayloads : p.is_long}
PairEnvelopes ==
    {[message_type |-> "ExchangePosition", type |-> "ExchangePosition", id |-> n,
      payload |-> p] :
        n \in 1..MaxEnvelopes, p \in SeqsOf(LongPositionPayloads, 2, MaxPairPositions)}
OtherEnvelopes ==
    {[message_type |-> "DerivativeTrade", type |-> "DerivativeTrade", id |-> n,
      payload |-> <<>>] : n \in 1..MaxEnvelopes}

\* envelopes whose payload is not the variant of their message_type, one for
\* each way the sinks tell envelopes apart
MalformedEnvelopes ==
    {[message_type |-> "DerivativeMarket", type |-> "ExchangePosition", id |-> 0,
      payload |-> <<p>>] : p \in {q \in LongPositionPayloads : q.quantity > 0}}
    \cup {[message_type |-> "ExchangePosition", type |-> "DerivativeMarket", id |-> n,
           payload |-> <<p>>] : n \in 1..MaxEnvelopes, p \in MarketPayloads}
    \cup {[message_type |-> "OraclePrice", type |-> "DerivativeTrade", id |-> n,
           payload |-> <<"t1">>] : n \in 1..MaxEnvelopes}
    \cup {[message_type |-> "DerivativeTrade", type |-> "ExchangePosition", id |-> n,
           payload |-> <<p>>] :
               n \in 1..MaxEnvelopes, p \in {q \in LongPositionPayloads : q.quantity > 0}}

\* the one order used where the order of SMEMBERS cannot show
FixedOrder == CHOOSE o \in SubaccountOrders : TRUE

\* consumer/mod.rs: the consumer task hands the next envelope of the log to
\* process_message and waits for it to return
Receive(message, fault, order) ==
    /\ ~blocked
    /\ fault # NoFault => faults < MaxFaults
    /\ message.message_type # "DerivativeMarket" => message.id = received + 1
    /\ \E c \in {process_message(Ctx(fault), message, order)} :
           /\ fault # NoFault => c.failed
           /\ phase' = c.phase
           /\ market_ids' = c.market_ids
           /\ deferred_messages' = c.deferred_messages
           /\ blocked' = c.blocked
           /\ store' = c.store
           /\ processed' = c.processed
           /\ posWriteInMarkets' = c.posWriteInMarkets
           /\ faults' = IF c.failed THEN faults + 1 ELSE faults
           /\ lastEvent' = [kind |-> message.type, count |-> Len(message.payload),
                            failed |-> c.failed, phase |-> phase,
                            alerts |-> c.alerts,
                            awaited_under_lock |-> c.awaited_under_lock,
                            invalid |-> c.invalid, no_market |-> c.no_market,
                            stored |-> c.stored,
                            mismatch |-> message.message_type # message.type,
                            batch_events |-> c.batch_events]
    /\ received' = IF message.message_type = "DerivativeMarket" THEN received
                   ELSE received + 1
    /\ UNCHANGED <<wideVars, pubVars, prodVars, lifeVars, consVars, preVars>>

\* the re-evaluation loop is the one place where the order of SMEMBERS shows,
\* and only when a command of the loop fails and ends it
ReceiveMarkets ==
    \E message \in MarketEnvelopes :
        \/ \E fault \in {NoFault} \cup MarketFaults \cup PositionFaults :
               Receive(message, fault, FixedOrder)
        \/ \E fault \in ReevaluationFaults, order \in SubaccountOrders :
               Receive(message, fault, order)
ReceivePositions ==
    \E message \in PositionEnvelopes, fault \in {NoFault} \cup PositionFaults :
        Receive(message, fault, FixedOrder)
ReceiveOther ==
    \E message \in OtherEnvelopes : Receive(message, NoFault, FixedOrder)

NextCache == ReceiveMarkets \/ ReceivePositions \/ ReceiveOther

\* the sink fed with envelopes of one market and envelopes of several positions
ReceiveSingleMarket ==
    \E message \in SingleMarketEnvelopes : Receive(message, NoFault, FixedOrder)
ReceivePair ==
    \E message \in PairEnvelopes, fault \in {NoFault, "pos_exists"} :
        Receive(message, fault, FixedOrder)

NextEnvelope == ReceiveSingleMarket \/ ReceivePair

\* the sink fed with an envelope whose payload does not match its message_type
ReceiveMalformed ==
    \E message \in MalformedEnvelopes : Receive(message, NoFault, FixedOrder)

(***************************************************************************)
(* Claims about the cache sink                                             *)
(***************************************************************************)

C4_MarketEnvelopeCompletes ==
    (lastEvent.kind = "DerivativeMarket" /\ faults = 0)
        => (~blocked /\ market_ids = {} /\ phase = "Others")

\* C5: between events, "m:s" is in liquidatable_positions exactly when
\* position:m:s has is_liquidatable = "true".
C5_LiquidatableSetMatchesFlags ==
    ~blocked =>
        \A k \in PosKeys :
            k \in store.liquidatable_positions <=> store.position[k].is_liquidatable = "true"

\* the fields of position:m:s agree with the cached record of market m
ConsistentWithMarket(k) ==
    LET rec == store.position[k]
        market == store.market[k[1]]
        liquidation_price ==
            calculate_liquidation_price(ParseBool(rec.is_long), rec.entry_price,
                rec.margin, rec.quantity, market.maintenance_margin_ratio,
                market.cumulative_funding, rec.cumulative_funding_entry)
    IN  /\ rec.liquidation_price = liquidation_price
        /\ rec.is_liquidatable =
               BoolToString(is_liquidatable(ParseBool(rec.is_long), liquidation_price,
                                            market.mark_price))

\* C6: every position record carries the liquidation_price and the
\* is_liquidatable computed from the cached record of its market.
C6_PositionsConsistentWithMarket ==
    \A k \in PosKeys : store.position[k] # NoPosition => ConsistentWithMarket(k)

\* C7: once the phase is Others, every non-market envelope received so far
\* has been processed exactly once and in the order of arrival, and none waits
\* in the deferred queue.
C7_DeferredProcessedOnceInOrder ==
    phase = "Others" =>
        /\ deferred_messages = <<>>
        /\ processed = [i \in 1..received |-> i]

\* C23: a LiquidationAlert is published for a position only when the event
\* finds it newly liquidatable (its key was not in liquidatable_positions
\* before the event) and then exactly once; a position that becomes
\* liquidatable in an event without a failing command gets its alert, and one
\* that stops being liquidatable leaves the set.
C23_AlertOnlyWhenNewlyLiquidatable ==
    [][LET alerts == lastEvent'.alerts
       IN  /\ \A i \in DOMAIN alerts : alerts[i] \notin store.liquidatable_positions
           /\ \A i, j \in DOMAIN alerts : i # j => alerts[i] # alerts[j]
           /\ ~lastEvent'.failed =>
                  \A k \in PosKeys :
                      /\ (k \in store'.liquidatable_positions
                            /\ k \notin store.liquidatable_positions)
                             => \E i \in DOMAIN alerts : alerts[i] = k
                      /\ (k \in store.liquidatable_positions
                            /\ store'.position[k].is_liquidatable = "false")
                             => k \notin store'.liquidatable_positions
      ]_vars

\* position inputs that fail the validity test: a quantity, an entry price or
\* a margin that is zero or negative
InvalidPositionInputs ==
    { [market_id |-> k[1], subaccount_id |-> k[2], is_long |-> l, quantity |-> q,
       entry_price |-> e, margin |-> g, cumulative_funding_entry |-> 0]
        : k \in PosKeys, l \in BOOLEAN,
          <<q, e, g>> \in {t \in {0 - 1, 0, 1} \X {0 - 1, 0, 4} \X {0 - 1, 0, 2} :
                              t[1] <= 0 \/ t[2] <= 0 \/ t[3] <= 0} }

\* position records with such values, as the re-evaluation loop would read them
InvalidStoredRecords ==
    { [is_long |-> "true", quantity |-> t[1], entry_price |-> t[2], margin |-> t[3],
       cumulative_funding_entry |-> 0,
       liquidation_price |-> calculate_liquidation_price(TRUE, 4, 2, 1, 50, 0, 0),
       is_liquidatable |-> f]
        : t \in {<<0, 4, 2>>, <<1, 0, 2>>, <<1, 4, 0>>, <<0 - 1, 4, 2>>},
          f \in {"true", "false"} }

\* C24: a position input with quantity <= 0, entry_price <= 0 or margin <= 0
\* leaves the cache as it is (record, index sets, liquidatable_positions; an
\* existing record stays), in position processing and in the re-evaluation of
\* a stored record on a market update.
C24_InvalidPositionSkipped ==
    /\ \A position \in InvalidPositionInputs, fault \in {NoFault, "pos_exists"} :
           process_position(Ctx(fault), position).store = store
    /\ \A k \in PosKeys, rec \in InvalidStoredRecords, mark_price \in MarkPrices :
           LET c == [Ctx(NoFault) EXCEPT !.store.position[k] = rec]
               market == [market_id |-> k[1], mark_price |-> mark_price,
                          maintenance_margin_ratio |-> 50, cumulative_funding |-> 0]
           IN  ReevaluatePosition(c, market, k[2]).store = c.store

\* a position envelope with invalid data was handled in phase Others for a
\* position that is stored and liquidatable, and the record is still there
C24_Witness ==
    /\ lastEvent.kind = "ExchangePosition"
    /\ lastEvent.phase = "Others"
    /\ \E k \in lastEvent.invalid :
           /\ store.position[k] # NoPosition
           /\ store.position[k].is_liquidatable = "true"
           /\ k \in store.liquidatable_positions
           /\ k[2] \in store.positions_market[k[1]]

\* C30: a position whose market record does not exist changes nothing in the
\* cache, and the other positions of its envelope are processed as they
\* would be without it.
C30_MissingMarketSkipped ==
    /\ \A position \in PositionPayloads, fault \in {NoFault, "pos_exists"} :
           ~store.market[position.market_id].exists
               => process_position(Ctx(fault), position).store = store
    /\ \A p1, p2 \in PositionPayloads :
           ~store.market[p1.market_id].exists =>
               LET alone == ProcessPositions(Ctx(NoFault), <<p2>>).store
               IN  /\ ProcessPositions(Ctx(NoFault), <<p1, p2>>).store = alone
                   /\ ProcessPositions(Ctx(NoFault), <<p2, p1>>).store = alone

\* an envelope of two positions was handled in phase Others: one was skipped
\* for its missing market and left no record, the other one was stored
C30_Witness ==
    /\ lastEvent.kind = "ExchangePosition"
    /\ lastEvent.count = 2
    /\ lastEvent.phase = "Others"
    /\ ~lastEvent.failed
    /\ lastEvent.stored # {}
    /\ \E k \in lastEvent.no_market :
           /\ ~store.market[k[1]].exists
           /\ store.position[k] = NoPosition
           /\ k[2] \notin store.positions_market[k[1]]
           /\ k \notin store.liquidatable_positions

\* C28: no publish to the pub/sub service is awaited while the guard of the
\* cache connection is alive.
C28_NoPublishUnderConnectionLock ==
    ~lastEvent.awaited_under_lock

\* C25: once the phase is Others the deferred queue is empty and the cache
\* key markets_ready holds "true", in every later state.
C25_AfterTransitionReady ==
    phase = "Others" => (deferred_messages = <<>> /\ store.markets_ready = "true")

\* C39: every position record of the cache is indexed both ways: for a
\* record position:m:s, s is in positions:market:m and m is in
\* positions:subaccount:s, also after position events whose writes failed
\* part-way; so the re-evaluation of market m, which walks positions:market:m,
\* reaches every stored position of m.
C39_PositionRecordsIndexed ==
    \A k \in PosKeys :
        store.position[k] # NoPosition =>
            /\ k[2] \in store.positions_market[k[1]]
            /\ k[1] \in store.positions_subaccount[k[2]]

(***************************************************************************)
(* Part III.  The tasks of the ingester process (grpc/src/main.rs): main, *)
(* the stream task, the heartbeat task and the Ctrl+C task.                *)
(***************************************************************************)

\* the deadlines of the interval that a slow tick can miss
MaxDue == 2

\* query_client.rs:214-277: the snapshots of a tick, in the order they are sent
SnapshotTypes == {"DerivativeMarket", "ExchangePosition", "DerivativeFullOrderbook"}

\* main.rs:37-95: the state when main has spawned its tasks
InitIngester ==
    /\ stream_state = "Connecting"
    /\ shutdown_rx = 0
    /\ ctrl_c = "waiting"
    /\ main_state = "joining"
    /\ heartbeat_state = "sleep"
    /\ snapshots = [s \in SnapshotTypes |-> "pending"]
    /\ due = 1

\* the runtime runs its tasks until main returns
Running == main_state = "joining"

\* main.rs:193: client.stream(request).await?
StreamConnect(ok) ==
    /\ Running
    /\ stream_state = "Connecting"
    /\ stream_state' = IF ok THEN "Streaming" ELSE "Failed"
    /\ UNCHANGED <<wideVars, pubVars, prodVars, cacheVars, consVars, preVars, shutdown_rx, ctrl_c, main_state, heartbeat_state,
                   snapshots, due>>

\* main.rs:203-217: the stream yields a message and the loop handles it
StreamMessage(h, n) ==
    /\ Running
    /\ stream_state = "Streaming"
    /\ StreamRecv(h, n)
    /\ UNCHANGED <<wideVars, pubVars, cacheVars, lifeVars, consVars, preVars>>

\* main.rs:219-227: the stream yields an error or ends, the loop breaks
StreamBreak ==
    /\ Running
    /\ stream_state = "Streaming"
    /\ Free("stream")
    /\ stream_state' = "Exited"
    /\ UNCHANGED <<wideVars, pubVars, prodVars, cacheVars, consVars, preVars, shutdown_rx, ctrl_c, main_state, heartbeat_state,
                   snapshots, due>>

\* main.rs:199-202: the loop receives the shutdown message and breaks
StreamShutdown ==
    /\ Running
    /\ stream_state = "Streaming"
    /\ Free("stream")
    /\ shutdown_rx > 0
    /\ shutdown_rx' = shutdown_rx - 1
    /\ stream_state' = "Exited"
    /\ UNCHANGED <<wideVars, pubVars, prodVars, cacheVars, consVars, preVars, ctrl_c, main_state, heartbeat_state, snapshots, due>>

\* main.rs:83-90: Ctrl+C arrives and the handler sends on the shutdown channel;
\* the send fails, and is ignored, when the stream task has dropped the receiver
CtrlC ==
    /\ Running
    /\ ctrl_c = "waiting"
    /\ ctrl_c' = "sent"
    /\ shutdown_rx' = IF stream_state \in {"Connecting", "Streaming"} THEN 1 ELSE shutdown_rx
    /\ UNCHANGED <<wideVars, pubVars, prodVars, cacheVars, consVars, preVars, stream_state, main_state, heartbeat_state, snapshots, due>>

\* main.rs:98-114: try_join! returns when both handles have completed or as
\* soon as the stream task's result is an error; the heartbeat task completes
\* only by leaving the loop of ExchangeHeartbeat::start, which has no exit
MainReturn ==
    /\ Running
    /\ stream_state = "Failed"
    /\ main_state' = "returned"
    /\ UNCHANGED <<wideVars, pubVars, prodVars, cacheVars, consVars, preVars, stream_state, shutdown_rx, ctrl_c, heartbeat_state,
                   snapshots, due>>

\* query_client.rs:191: a deadline of the interval passes, whatever the
\* heartbeat task is doing; a missed deadline stays due
TimerFires ==
    /\ Running
    /\ due < MaxDue
    /\ due' = due + 1
    /\ UNCHANGED <<wideVars, pubVars, prodVars, cacheVars, consVars, preVars, stream_state, shutdown_rx, ctrl_c, main_state,
                   heartbeat_state, snapshots>>

\* a tick started at every deadline, whatever the last tick is doing
TickSpawned == TRUE

\* query_client.rs:193-194: the loop is at interval.tick().await only when
\* the body of its last iteration is over
TickAwaited == heartbeat_state = "sleep"

\* query_client.rs:193-223: interval.tick() completes, the tick reads the chain
\* height and sends the markets snapshot
TickStart(h, ok) ==
    /\ Running
    /\ TickAwaited
    /\ due > 0
    /\ due' = due - 1
    /\ HeartbeatTick(h, ok)
    /\ heartbeat_state' = "markets"
    /\ snapshots' = [s \in SnapshotTypes |-> "pending"]
    /\ UNCHANGED <<wideVars, pubVars, cacheVars, consVars, preVars, stream_state, shutdown_rx, ctrl_c, main_state>>

\* query_client.rs:316, 351, 385: what became of the envelope of the call that
\* has returned
SnapshotOutcome ==
    IF messages["heartbeat"] = <<>> THEN "not_fetched"
    ELSE IF results["heartbeat"] = <<>> THEN "dropped"
    ELSE IF results["heartbeat"][1].outcome = "Ok" THEN "emitted"
    ELSE "failed"

\* query_client.rs:226-235 and 250-276: the next snapshot of the tick is
\* fetched and, when the fetch gave something, sent as one envelope tagged with
\* the block_height of the tick
NextSnapshot(of, to, type, fetched) ==
    /\ Running
    /\ heartbeat_state = of
    /\ pc["heartbeat"] = "returned"
    /\ snapshots' = [snapshots EXCEPT ![type] = SnapshotOutcome]
    /\ heartbeat_state' = to
    /\ IF fetched
       THEN NewCall("heartbeat", <<block_height>>, "call")
       ELSE NewCall("heartbeat", <<>>, "returned")
    /\ UNCHANGED <<latest_processed_block, request_limiter, upd, current, block_height,
                   maxPassed>>
    /\ UNCHANGED <<wideVars, pubVars, cacheVars, consVars, preVars, stream_state, shutdown_rx, ctrl_c, main_state, due>>

\* query_client.rs:277-278: the tick is over, the loop awaits the next tick
TickEnd ==
    /\ Running
    /\ heartbeat_state = "orderbooks"
    /\ pc["heartbeat"] = "returned"
    /\ snapshots' = [snapshots EXCEPT !["DerivativeFullOrderbook"] = SnapshotOutcome]
    /\ heartbeat_state' = "sleep"
    /\ UNCHANGED <<wideVars, pubVars, prodVars, cacheVars, consVars, preVars, stream_state, shutdown_rx, ctrl_c, main_state, due>>

\* the steps of the stream task inside the producer
StreamStep ==
    /\ Running
    /\ ProducerStep("stream")
    /\ UNCHANGED <<wideVars, pubVars, cacheVars, lifeVars, consVars, preVars>>

\* the steps of the heartbeat task inside the producer
HeartbeatStep ==
    /\ Running
    /\ HeartbeatUpdateStore \/ ProducerStep("heartbeat")
    /\ UNCHANGED <<wideVars, pubVars, cacheVars, lifeVars, consVars, preVars>>

\* query_client.rs:193-278: the steps of the heartbeat loop
HeartbeatLoop ==
    \/ \E h \in Heights, ok \in BOOLEAN : TickStart(h, ok)
    \/ \E fetched \in BOOLEAN :
           NextSnapshot("markets", "positions", "DerivativeMarket", fetched)
    \/ \E fetched \in BOOLEAN :
           NextSnapshot("positions", "orderbooks", "ExchangePosition", fetched)
    \/ TickEnd
    \/ HeartbeatStep

NextIngester ==
    \/ \E ok \in BOOLEAN : StreamConnect(ok)
    \/ \E h \in Heights, n \in 0..MaxStreamLen : StreamMessage(h, n)
    \/ StreamStep
    \/ StreamBreak
    \/ StreamShutdown
    \/ CtrlC
    \/ MainReturn
    \/ TimerFires
    \/ HeartbeatLoop

(***************************************************************************)
(* Claims about the ingester process                                       *)
(***************************************************************************)

\* C14: after the stream has failed or was closed by the peer, and unless
\* shutdown is signalled, the ingester eventually has a stream again.
C14_ReconnectsAfterStreamLoss ==
    (stream_state = "Exited" /\ ctrl_c = "waiting")
        ~> (stream_state = "Streaming" \/ ctrl_c = "sent")

\* C15: once Ctrl+C has signalled shutdown, the stream loop stops and main
\* eventually returns.
C15_ShutdownTerminates ==
    (ctrl_c = "sent") ~> (stream_state \in {"Exited", "Failed"} /\ main_state = "returned")

\* C17: a tick whose three snapshots were fetched and accepted by the broker
\* has emitted one envelope of each snapshot type, whatever the stream task
\* did to the shared tip meanwhile.
C17_TickEmitsEverySnapshot ==
    (/\ heartbeat_state = "sleep"
     /\ \A s \in SnapshotTypes : snapshots[s] \notin {"pending", "not_fetched", "failed"})
        => \A s \in SnapshotTypes : snapshots[s] = "emitted"

\* C18: a tick starts only when the loop awaits the timer, that is when every
\* fetch and send of the tick before it is over; a deadline that passes during
\* a tick starts nothing and leaves the running tick alone.
C18_TicksSerial ==
    [][/\ due' < due =>
             /\ heartbeat_state = "sleep"
             /\ Free("heartbeat")
             /\ \/ \A s \in SnapshotTypes : snapshots[s] = "pending"
                \/ \A s \in SnapshotTypes : snapshots[s] # "pending"
       /\ due' > due => UNCHANGED <<wideVars, pubVars, prodVars, heartbeat_state, snapshots>>
      ]_vars

\* a tick is over and the next deadline has passed meanwhile: the next tick is
\* late and has not started during the tick
C18_Witness ==
    /\ heartbeat_state = "sleep"
    /\ \A s \in SnapshotTypes : snapshots[s] # "pending"
    /\ due = MaxDue

(***************************************************************************)
(* Part IV.  A sink's consumer (injective-consumer/src/consumer/mod.rs)    *)
(* feeding the processor of the cache sink or of the wide-column sink      *)
(* (cache/src/processor/mod.rs, db/src/processor/mod.rs).  The routine     *)
(* main calls, start_with_shutdown, is not part of the sources: its        *)
(* shutdown path is the one the consumer contract describes.               *)
(***************************************************************************)

\* the envelopes the broker delivers to the consumer in one run
MaxPolled == 3

\* the items (markets, positions, ...) of one envelope's payload
MaxItems == 2

\* consumer/mod.rs:85: mpsc::channel(100), scaled
CHANNEL_CAPACITY == 2

Envelopes == 1..MaxPolled

\* what a consumed record can be: an envelope whose processing returns Ok, bytes
\* that are not UTF-8, text that is not an envelope, an envelope whose
\* processing returns Err
RecordKinds == {"ok", "not_utf8", "unparsable", "fails"}

\* consumer/mod.rs:75-88 and main.rs:147-150
InitConsumer ==
    /\ polled = 0
    /\ channel = <<>>
    /\ in_flight = 0
    /\ remaining = [e \in Envelopes |-> 0]
    /\ mutations = <<>>
    /\ shutdown_signal = "none"
    /\ consumer_state = "polling"
    /\ handed = 0
    /\ kinds = [e \in Envelopes |-> "none"]
    /\ logged = {}

\* consumer/mod.rs:115-117: the poll loop receives the next envelope and sends
\* it into the channel, waiting while the channel is full
Poll(kind) ==
    /\ consumer_state = "polling"
    /\ polled < MaxPolled
    /\ Len(channel) < CHANNEL_CAPACITY
    /\ polled' = polled + 1
    /\ channel' = Append(channel, polled + 1)
    /\ kinds' = [kinds EXCEPT ![polled + 1] = kind]
    /\ UNCHANGED <<in_flight, remaining, mutations, shutdown_signal, consumer_state, handed,
                   logged>>

\* a consumer that goes on feeding its processor after the signal
HandsAlways == TRUE

\* consumer contract: once the signal is observed nothing more is handed over
MayHand == consumer_state = "polling"

\* consumer/mod.rs:90-96: the processor task takes the next envelope of the
\* channel and calls process_message with it
Hand ==
    /\ MayHand
    /\ in_flight = 0
    /\ channel # <<>>
    /\ in_flight' = Head(channel)
    /\ channel' = Tail(channel)
    /\ handed' = handed + 1
    /\ UNCHANGED <<polled, remaining, mutations, shutdown_signal, consumer_state, kinds,
                   logged>>

\* cache/src/processor/mod.rs:83-143 and db/src/processor/mod.rs:11-73:
\* process_message spawns a task that will store the n items of the payload
\* and returns Ok at once
process_message_spawn(n) ==
    /\ in_flight # 0
    /\ kinds[in_flight] = "ok"
    /\ remaining' = [remaining EXCEPT ![in_flight] = n]
    /\ in_flight' = 0
    /\ kinds' = [kinds EXCEPT ![in_flight] = "none"]
    /\ UNCHANGED <<polled, channel, mutations, shutdown_signal, consumer_state, handed,
                   logged>>

\* a processor task that an error ends: it stays with the record for ever
StuckAfterError(e) == e

\* consumer/mod.rs:89-112: every arm of the match ends the iteration of
\* `while let Some(msg) = rx.recv().await`, and the task is free for the next
AfterError(e) == 0

\* consumer/mod.rs:91-110: the payload is not UTF-8, or it does not parse as a
\* KafkaMessage, or process_message returns Err: error! and nothing else
RecordError ==
    /\ in_flight # 0
    /\ kinds[in_flight] \in {"not_utf8", "unparsable", "fails"}
    /\ logged' = logged \cup {in_flight}
    /\ in_flight' = AfterError(in_flight)
    /\ kinds' = [kinds EXCEPT ![in_flight] = IF in_flight' = 0 THEN "none" ELSE @]
    /\ UNCHANGED <<polled, channel, remaining, mutations, shutdown_signal, consumer_state,
                   handed>>

\* cache/src/processor/mod.rs:90-97: the spawned task of envelope e stores its
\* next item
StoreItem(e) ==
    /\ remaining[e] > 0
    /\ remaining' = [remaining EXCEPT ![e] = @ - 1]
    /\ mutations' = Append(mutations, e)
    /\ UNCHANGED <<polled, channel, in_flight, shutdown_signal, consumer_state, handed,
                   kinds, logged>>

\* injective-consumer/src/main.rs:187-207: Ctrl+C sends on the oneshot channel
SendShutdown ==
    /\ shutdown_signal = "none"
    /\ shutdown_signal' = "sent"
    /\ UNCHANGED <<polled, channel, in_flight, remaining, mutations, consumer_state, handed,
                   kinds, logged>>

\* consumer contract: on signal, stop polling
ObserveShutdown ==
    /\ consumer_state = "polling"
    /\ shutdown_signal = "sent"
    /\ shutdown_signal' = "observed"
    /\ consumer_state' = "stopping"
    /\ UNCHANGED <<polled, channel, in_flight, remaining, mutations, handed, kinds, logged>>

\* consumer contract: let the in-flight processor call complete, return
ConsumerReturn ==
    /\ consumer_state = "stopping"
    /\ in_flight = 0
    /\ consumer_state' = "returned"
    /\ UNCHANGED <<polled, channel, in_flight, remaining, mutations, shutdown_signal, handed,
                   kinds, logged>>

NextConsumer ==
    /\ \/ \E kind \in RecordKinds : Poll(kind)
       \/ Hand
       \/ \E n \in 1..MaxItems : process_message_spawn(n)
       \/ RecordError
       \/ \E e \in Envelopes : StoreItem(e)
       \/ SendShutdown
       \/ ObserveShutdown
       \/ ConsumerReturn
    /\ UNCHANGED <<wideVars, pubVars, prodVars, cacheVars, lifeVars, preVars>>

(***************************************************************************)
(* Claims about the consumer                                               *)
(***************************************************************************)

C29_BadRecordLoggedAndSkipped ==
    /\ [][(in_flight # 0 /\ kinds[in_flight] \notin {"ok", "none"} /\ in_flight' # in_flight)
             => (in_flight \in logged' /\ remaining' = remaining
                   /\ mutations' = mutations)]_vars
    /\ \A e \in Envelopes :
           (polled >= e) ~> ((handed >= e /\ in_flight # e) \/ consumer_state # "polling")

\* an error was logged for a record and a later record has had a store mutation
C29_Witness ==
    \E e \in logged : \E i \in DOMAIN mutations : mutations[i] > e

\* C19: the store mutations happen in the order of the envelopes that cause
\* them: no mutation of an earlier envelope follows one of a later envelope.
C19_MutationsInOrder ==
    \A i, j \in 1..Len(mutations) : i < j => mutations[i] <= mutations[j]

(***************************************************************************)
(* Part V.  The market preloader (market_preloader/mod.rs): a second       *)
(* processor, fed by its own consumer, that writes the market records and  *)
(* the position records of the same cache as the cache sink.               *)
(***************************************************************************)

\* market_preloader/mod.rs:13-14: 1e24 and 1e18, scaled
PRICE_DECIMAL == 2
QUANTITY_DECIMAL == 10

\* market_preloader/mod.rs:333: processed_count >= 10, scaled
PRELOAD_THRESHOLD == 2

\* markets_ready events of one run
MaxSystemEvents == 1

\* market_preloader/mod.rs:65-73: a parsed chain value divided by its factor
Scaled(raw, decimal) == raw \div decimal

PreloaderFaults ==
    {"pre_hset_ticker", "pre_hset_mark_price", "pre_hset_maintenance_margin_ratio",
     "pre_sadd_markets", "pre_smembers", "pre_hset_liquidation_price",
     "pre_hset_is_liquidatable", "pre_sadd", "pre_srem", "pre_publish",
     "pre_set_processing_phase", "pre_set_markets_ready"}

\* main.rs creates the preloader after the cache sink
InitPreloader ==
    /\ preloader_state = "none"
    /\ markets_processed = 0
    /\ known_markets = {}
    /\ system_events = <<>>

\* market_preloader/mod.rs:28-51
PreloaderNew ==
    /\ preloader_state = "none"
    /\ preloader_state' = "started"
    /\ store' = [store EXCEPT !.processing_phase = "markets", !.markets_ready = "false"]
    /\ UNCHANGED <<markets_processed, known_markets, system_events>>
    /\ UNCHANGED <<phase, market_ids, deferred_messages, blocked, received, processed,
                   posWriteInMarkets, faults, lastEvent>>
    /\ UNCHANGED <<wideVars, pubVars, prodVars, lifeVars, consVars>>

\* the state one call of the preloader's process_message works on
PreCtx(fault) ==
    [store |-> store, markets_processed |-> markets_processed,
     known_markets |-> known_markets, system_events |-> system_events,
     blocked |-> FALSE,
     err |-> FALSE, fault |-> fault, failed |-> FALSE]

\* market_preloader/mod.rs:130-301, the body of the loop for one subaccount
PreloaderReevaluate(c, market_id, mark_price, maintenance_margin_ratio, cumulative_funding, subaccount_id) ==
    LET k == <<market_id, subaccount_id>>
        rec == c.store.position[k]
    IN  IF \/ rec.is_long = "nil" \/ rec.quantity = Absent
           \/ rec.entry_price = Absent \/ rec.margin = Absent
        THEN c
        ELSE
        LET is_long == ParseBool(rec.is_long)
            cumulative_funding_entry ==
                IF rec.cumulative_funding_entry = Absent THEN 0
                ELSE rec.cumulative_funding_entry
        IN  IF rec.quantity <= 0 \/ rec.entry_price <= 0 \/ rec.margin <= 0 THEN c
            ELSE
            LET liquidation_price ==
                    calculate_liquidation_price(is_long, rec.entry_price, rec.margin,
                        rec.quantity, maintenance_margin_ratio, cumulative_funding,
                        cumulative_funding_entry)
                c1 == Cmd(c, "pre_hset_liquidation_price",
                          [c EXCEPT !.store.position[k].liquidation_price = liquidation_price])
                liquidatable == is_liquidatable(is_long, liquidation_price, mark_price)
                c2 == Cmd(c1, "pre_hset_is_liquidatable",
                          [c1 EXCEPT !.store.position[k].is_liquidatable =
                                         BoolToString(liquidatable)])
            IN  LiquidatableSetUpdate(c2, k, liquidatable, "pre_sadd", "pre_srem",
                                      "pre_publish")

RECURSIVE PreloaderReevaluateAll(_, _, _, _, _, _)
PreloaderReevaluateAll(c, market_id, mark_price, maintenance_margin_ratio, cumulative_funding, subaccount_ids) ==
    IF subaccount_ids = <<>> \/ c.err THEN c
    ELSE PreloaderReevaluateAll(
             PreloaderReevaluate(c, market_id, mark_price, maintenance_margin_ratio,
                                 cumulative_funding, Head(subaccount_ids)),
             market_id, mark_price, maintenance_margin_ratio, cumulative_funding,
             Tail(subaccount_ids))

\* market_preloader/mod.rs:55-320
preloader_process_derivative_market(c, market, order) ==
    LET m == market.market_id
        cumulative_funding == Scaled(market.cumulative_funding, PRICE_DECIMAL)
        mark_price == Scaled(market.mark_price, PRICE_DECIMAL)
        maintenance_margin_ratio ==
            Scaled(market.maintenance_margin_ratio, QUANTITY_DECIMAL)
        c1 == Cmd(c, "pre_hset_ticker", [c EXCEPT !.store.market[m].exists = TRUE])
        c2 == Cmd(c1, "pre_hset_mark_price",
                  [c1 EXCEPT !.store.market[m].mark_price = mark_price])
        c3 == Cmd(c2, "pre_hset_maintenance_margin_ratio",
                  [c2 EXCEPT !.store.market[m].maintenance_margin_ratio =
                                 maintenance_margin_ratio,
                             !.store.market[m].cumulative_funding = cumulative_funding])
        c4 == Cmd(c3, "pre_sadd_markets",
                  [c3 EXCEPT !.store.markets_derivative = @ \cup {m}])
    IN  IF c4.err THEN c4
        ELSE
        LET c5 == [c4 EXCEPT !.known_markets = @ \cup {m}]
            c6 == Cmd(c5, "pre_smembers", c5)
            c7 == PreloaderReevaluateAll(c6, m, mark_price, maintenance_margin_ratio,
                      cumulative_funding, Listed(c6.store.positions_market[m], order))
        IN  IF c7.err THEN c7
            ELSE [c7 EXCEPT !.markets_processed =
                                IF @ < PRELOAD_THRESHOLD THEN @ + 1 ELSE @]

\* market_preloader/mod.rs:387-398: an Err of a market is logged
RECURSIVE PreloaderMarkets(_, _, _)
PreloaderMarkets(c, markets, order) ==
    IF markets = <<>> THEN c
    ELSE PreloaderMarkets(Logged(preloader_process_derivative_market(c, Head(markets), order)),
                          Tail(markets), order)

\* the payload of the system event of check_phase_transition
MarketsReadyEvent(processed_count, market_count) ==
    [event |-> "markets_ready", processed_count |-> processed_count,
     market_count |-> market_count]

\* market_preloader/mod.rs:323-366; the counter is kept up to the threshold
check_phase_transition(c) ==
    IF c.markets_processed >= PRELOAD_THRESHOLD /\ c.known_markets # {}
    THEN LET c1 == Cmd(c, "pre_set_processing_phase",
                       [c EXCEPT !.store.processing_phase = "others"])
             c2 == Cmd(c1, "pre_set_markets_ready",
                       [c1 EXCEPT !.store.markets_ready = "true"])
         IN  IF c2.err THEN c2
             ELSE [c2 EXCEPT !.system_events =
                       Append(@, MarketsReadyEvent(c.markets_processed,
                                                   Cardinality(c.known_markets)))]
    ELSE c

\* market_preloader/mod.rs:370-410
preloader_process_message(c, message, order) ==
    IF message.type = "DerivativeMarket"
    THEN Logged(check_phase_transition(PreloaderMarkets(c, message.payload, order)))
    ELSE c

\* the preloader's consumer hands it the next envelope of its own group
PreloaderReceive(message, fault, order) ==
    /\ preloader_state = "started"
    /\ fault # NoFault => faults < MaxFaults
    /\ \E c \in {preloader_process_message(PreCtx(fault), message, order)} :
           /\ fault # NoFault => c.failed
           /\ store' = c.store
           /\ markets_processed' = c.markets_processed
           /\ known_markets' = c.known_markets
           /\ Len(c.system_events) <= MaxSystemEvents
           /\ system_events' = c.system_events
           /\ faults' = IF c.failed THEN faults + 1 ELSE faults
    /\ UNCHANGED <<preloader_state, phase, market_ids, deferred_messages, blocked,
                   received, processed, posWriteInMarkets, lastEvent>>
    /\ UNCHANGED <<wideVars, pubVars, prodVars, lifeVars, consVars>>

\* the cache sink and the preloader, each fed by its own consumer group
\* (injective-consumer/src/main.rs:100-180), writing the same cache
NextCatalog ==
    \/ PreloaderNew
    \/ \E message \in SingleMarketEnvelopes, fault \in {NoFault} \cup PreloaderFaults :
           PreloaderReceive(message, fault, FixedOrder)
    \/ \E message \in OtherEnvelopes : PreloaderReceive(message, NoFault, FixedOrder)
    \/ \E message \in SingleMarketEnvelopes \cup PositionEnvelopes :
           Receive(message, NoFault, FixedOrder)

(***************************************************************************)
(* Claims about the market catalog                                         *)
(***************************************************************************)

\* C20: every market record of the cache holds its mark price, its
\* maintenance margin ratio and its cumulative funding in scaled form, that is
\* a chain value divided by its scale factor, whoever wrote the record last.
C20_MarketRecordsScaled ==
    \A m \in MarketIds :
        LET rec == store.market[m]
        IN  /\ rec.mark_price \in {Absent} \cup {Scaled(p, PRICE_DECIMAL) : p \in MarkPrices}
            /\ rec.maintenance_margin_ratio \in
                   {Absent} \cup {Scaled(r, QUANTITY_DECIMAL) : r \in MarginRatios}
            /\ rec.cumulative_funding \in
                   {Absent} \cup {Scaled(f, PRICE_DECIMAL) : f \in Fundings}

\* C27: the liquidation fields of a position and its membership in
\* liquidatable_positions are mutated by one task only, the cache sink: a
\* step of the market preloader leaves them as they are, so no re-evaluation
\* of a pair can interleave with another's.
C27_OnlySinkMutatesLiquidation ==
    [][(markets_processed' # markets_processed \/ known_markets' # known_markets)
          => /\ store'.liquidatable_positions = store.liquidatable_positions
             /\ \A k \in PosKeys :
                    /\ store'.position[k].liquidation_price
                           = store.position[k].liquidation_price
                    /\ store'.position[k].is_liquidatable
                           = store.position[k].is_liquidatable
      ]_vars

\* C35: the key processing_phase follows the cache sink's phase: once both
\* processors are constructed it is "markets", with markets_ready "false",
\* while the sink is in Markets, and it is "others" whenever the sink is in
\* Others, however few markets have been processed.
C35_PhaseKeyMirrorsSink ==
    /\ (preloader_state = "started" /\ phase = "Markets")
          => (store.processing_phase = "markets" /\ store.markets_ready = "false")
    /\ phase = "Others" => store.processing_phase = "others"

\* C36: a markets_ready event, carrying the processed count and the market
\* count, is published in the step in which the sink goes from Markets to
\* Others, one per transition, and in no other step.
C36_EventAtTransitionOnly ==
    [][IF phase = "Markets" /\ phase' = "Others"
       THEN /\ Len(system_events') = Len(system_events) + 1
            /\ system_events'[Len(system_events')].event = "markets_ready"
       ELSE system_events' = system_events
      ]_vars

(***************************************************************************)
(* Part VI.  The pub/sub service (injective-consumer/src/pubsub/mod.rs):   *)
(* callers of publish_event, the bounded outbound queue, the publisher     *)
(* workers with their connection pool, and one subscriber.                 *)
(***************************************************************************)

\* events handed to publish_event and publish_events_batch in one run
MaxPublishes == 3

\* failed attempts of the subscriber that a run follows
MaxFailures == 6

\* RedisPubSubConfig::default, scaled down: publisher_queue_size (10000),
\* publisher_workers (8), connection_pool_size (32, not below the workers)
PUBLISHER_QUEUE_SIZE == 2
PUBLISHER_WORKERS == 2
CONNECTION_POOL_SIZE == 2

\* mpsc::channel(2000) of RedisPubSubSubscriber::new, scaled down
SUBSCRIBER_CHANNEL_SIZE == 1

\* run_subscriber: max_retries, the first retry_delay and its cap, in ms
MAX_RETRIES == 5
FIRST_RETRY_DELAY == 100
RETRY_DELAY_CAP == 5000

\* enum EventType, #[repr(u8)]: the discriminants
EventType == 0..5

\* the Debug form of an EventType, what {:?} prints
EventTypeName(event_type) ==
    CASE event_type = 0 -> "MarketUpdate"
      [] event_type = 1 -> "PositionUpdate"
      [] event_type = 2 -> "LiquidationAlert"
      [] event_type = 3 -> "PriceUpdate"
      [] event_type = 4 -> "OrderbookUpdate"
      [] event_type = 5 -> "TradeUpdate"

\* `event_type as u8` printed with {}
DiscriminantString(event_type) ==
    CASE event_type = 0 -> "0"
      [] event_type = 1 -> "1"
      [] event_type = 2 -> "2"
      [] event_type = 3 -> "3"
      [] event_type = 4 -> "4"
      [] event_type = 5 -> "5"

ChannelPrefixes == {"inj:exchange", "inj"}

\* a pool smaller than the number of workers is a configuration too
PoolSizes == 1..CONNECTION_POOL_SIZE

Configs ==
    [sharded_channels : BOOLEAN, channel_prefix : ChannelPrefixes,
     binary_protocol : BOOLEAN, connection_pool_size : PoolSizes]

NoConfig ==
    [sharded_channels |-> FALSE, channel_prefix |-> "",
     binary_protocol |-> FALSE, connection_pool_size |-> 0]

\* the two holders of the Arc<RedisPubSubService> (injective-consumer/src/main.rs:74, 96)
Publishers == {"sink", "preloader"}

Workers == 1..PUBLISHER_WORKERS

\* a queue entry (channel, payload): the payload is the serialization of one
\* StreamEvent (shape "event") or of a Vec<StreamEvent> (shape "list"), in the
\* protocol of the configuration; event_type is the type the channel was made for
NoMessage == [channel |-> "", event_type |-> Absent, shape |-> "", events |-> <<>>]

NoSubscriber ==
    [pc |-> "none", subscribed |-> FALSE, event_types |-> {}, channels |-> {},
     retry_count |-> 0, retry_delay |-> FIRST_RETRY_DELAY, failures |-> 0, last_sleep |-> 0]

NoPublisher == [pc |-> "idle", message |-> NoMessage, batch |-> <<>>, pending |-> {}]

\* the event types of the helper constructors create_market_update,
\* create_liquidation_alert and create_price_update
HelperEventTypes == {0, 2, 3}

\* the batches handed to publish_events_batch, by the types of their events
BatchEventTypes == {<<2, 2>>, <<2, 3>>}

\* the event types a subscriber is created for
SubscriberEventTypes == {{3}, {2, 3}}

InitPubSub ==
    /\ config = NoConfig
    /\ pub_queue = <<>>
    /\ metrics = [messages_published |-> 0, publish_errors |-> 0, queue_depth |-> 0]
    /\ pub_connections = 0
    /\ publishers = [p \in Publishers |-> NoPublisher]
    /\ workers = [w \in Workers |-> [pc |-> "none", message |-> NoMessage, warned |-> FALSE]]
    /\ subscriber = NoSubscriber
    /\ inbound = <<>>
    /\ sub_channel = <<>>
    /\ sub_log = [dropped |-> 0, undecoded |-> 0]
    /\ delivered = <<>>
    /\ attempts_enqueued = 0
    /\ publish_calls = 0

\* RedisPubSubService::new: the pool, the queue, the workers
RedisPubSubServiceNew(cfg) ==
    /\ config = NoConfig
    /\ config' = cfg
    /\ pub_connections' = cfg.connection_pool_size
    /\ workers' = [w \in Workers |-> [pc |-> "recv", message |-> NoMessage, warned |-> FALSE]]
    /\ UNCHANGED <<pub_queue, metrics, publishers, subscriber, inbound, sub_channel,
                   sub_log, delivered, attempts_enqueued, publish_calls>>

\* the channel with the discriminant in it, as get_channel_for_market builds it
ChannelWithDiscriminant(cfg, event_type) ==
    IF cfg.sharded_channels
    THEN cfg.channel_prefix \o ":" \o DiscriminantString(event_type)
    ELSE cfg.channel_prefix

get_channel_for_event(cfg, event_type) ==
    IF cfg.sharded_channels
    THEN cfg.channel_prefix \o ":" \o EventTypeName(event_type)
    ELSE cfg.channel_prefix

\* a StreamEvent made by a helper constructor; its timestamp tells it from the
\* other events of the run
StreamEvent(event_type, timestamp) == [event_type |-> event_type, timestamp |-> timestamp]

\* publish_event up to the send: the channel, the payload, queue_depth + 1
PublishEnter(p, event_type) ==
    /\ config # NoConfig
    /\ publishers[p].pc = "idle"
    /\ publish_calls < MaxPublishes
    /\ publish_calls' = publish_calls + 1
    /\ publishers' = [publishers EXCEPT ![p] =
           [pc |-> "send",
            message |-> [channel |-> get_channel_for_event(config, event_type),
                         event_type |-> event_type,
                         shape |-> "event",
                         events |-> <<StreamEvent(event_type, publish_calls + 1)>>],
            batch |-> <<>>, pending |-> {}]]
    /\ metrics' = [metrics EXCEPT !.queue_depth = @ + 1]
    /\ UNCHANGED <<config, pub_queue, pub_connections, workers, subscriber, inbound,
                   sub_channel, sub_log, delivered, attempts_enqueued>>

\* pub_queue.send(..).await completes: it does when the queue has room, and
\* waits while it has none (the receiver is never dropped, so it never fails)
PublishSend(p) ==
    /\ publishers[p].pc = "send"
    /\ Len(pub_queue) < PUBLISHER_QUEUE_SIZE
    /\ pub_queue' = Append(pub_queue, publishers[p].message)
    /\ attempts_enqueued' = attempts_enqueued + 1
    /\ publishers' = [publishers EXCEPT ![p].pc = "sent"]
    /\ UNCHANGED <<config, metrics, pub_connections, workers, subscriber, inbound,
                   sub_channel, sub_log, delivered, publish_calls>>

\* the Ok branch: queue_depth - 1, return Ok
PublishReturn(p) ==
    /\ publishers[p].pc = "sent"
    /\ metrics' = [metrics EXCEPT !.queue_depth = @ - 1]
    /\ publishers' = [publishers EXCEPT ![p] = NoPublisher]
    /\ UNCHANGED <<config, pub_queue, pub_connections, workers, subscriber, inbound,
                   sub_channel, sub_log, delivered, attempts_enqueued, publish_calls>>

\* the events of a batch that go to one channel, in the order of the batch
EventsOfChannel(cfg, events, ch) ==
    SelectSeq(events, LAMBDA ev : get_channel_for_event(cfg, ev.event_type) = ch)

\* one entry per event instead of one per channel
EntryPerEvent(cfg, events) ==
    {[channel |-> get_channel_for_event(cfg, events[i].event_type),
      event_type |-> events[i].event_type,
      shape |-> "list",
      events |-> <<events[i]>>] : i \in DOMAIN events}

\* publish_events_batch: the map from channel to its events, and for each
\* channel one payload that is the serialization of the channel's Vec<StreamEvent>
channel_events(cfg, events) ==
    {[channel |-> ch,
      event_type |-> EventsOfChannel(cfg, events, ch)[1].event_type,
      shape |-> "list",
      events |-> EventsOfChannel(cfg, events, ch)]
        : ch \in {get_channel_for_event(cfg, events[i].event_type) : i \in DOMAIN events}}

\* publish_events_batch up to join_all: one future per channel, queue_depth + 1
\* for each (an empty batch returns at once and changes nothing)
PublishBatchEnter(p, event_types) ==
    /\ config # NoConfig
    /\ publishers[p].pc = "idle"
    /\ publish_calls + Len(event_types) <= MaxPublishes
    /\ publish_calls' = publish_calls + Len(event_types)
    /\ LET events == [i \in DOMAIN event_types |->
                          StreamEvent(event_types[i], publish_calls + i)]
           entries == channel_events(config, events)
       IN  /\ publishers' = [publishers EXCEPT ![p] =
                  [pc |-> "join", message |-> NoMessage, batch |-> events,
                   pending |-> entries]]
           /\ metrics' = [metrics EXCEPT !.queue_depth = @ + Cardinality(entries)]
    /\ UNCHANGED <<config, pub_queue, pub_connections, workers, subscriber, inbound,
                   sub_channel, sub_log, delivered, attempts_enqueued>>

\* one future of join_all completes its queue.send(..).await: queue_depth - 1
PublishBatchSend(p) ==
    /\ publishers[p].pc = "join"
    /\ Len(pub_queue) < PUBLISHER_QUEUE_SIZE
    /\ \E message \in publishers[p].pending :
           /\ pub_queue' = Append(pub_queue, message)
           /\ publishers' = [publishers EXCEPT ![p].pending = @ \ {message}]
    /\ attempts_enqueued' = attempts_enqueued + 1
    /\ metrics' = [metrics EXCEPT !.queue_depth = @ - 1]
    /\ UNCHANGED <<config, pub_connections, workers, subscriber, inbound, sub_channel,
                   sub_log, delivered, publish_calls>>

\* join_all is ready, no result is an error: return Ok
PublishBatchReturn(p) ==
    /\ publishers[p].pc = "join"
    /\ publishers[p].pending = {}
    /\ publishers' = [publishers EXCEPT ![p] = NoPublisher]
    /\ UNCHANGED <<config, pub_queue, metrics, pub_connections, workers, subscriber,
                   inbound, sub_channel, sub_log, delivered, attempts_enqueued,
                   publish_calls>>

\* a worker takes the next message of the queue
WorkerRecv(w) ==
    /\ workers[w].pc = "recv"
    /\ pub_queue # <<>>
    /\ workers' = [workers EXCEPT ![w].pc = "take", ![w].message = Head(pub_queue)]
    /\ pub_queue' = Tail(pub_queue)
    /\ UNCHANGED <<config, metrics, pub_connections, publishers, subscriber, inbound,
                   sub_channel, sub_log, delivered, attempts_enqueued, publish_calls>>

\* a worker that keeps the handle it took
KeepHandle(pool) == pool

\* conn_guard.push(conn)
ReturnHandle(pool) == pool + 1

\* the worker takes a handle from the pool, or warns and records an error when
\* it is empty (warned: the worker has logged that warning)
WorkerTake(w) ==
    /\ workers[w].pc = "take"
    /\ IF pub_connections = 0
       THEN /\ metrics' = [metrics EXCEPT !.publish_errors = @ + 1]
            /\ workers' = [workers EXCEPT ![w] =
                               [pc |-> "recv", message |-> NoMessage, warned |-> TRUE]]
            /\ UNCHANGED pub_connections
       ELSE /\ pub_connections' = pub_connections - 1
            /\ workers' = [workers EXCEPT ![w].pc = "publish"]
            /\ UNCHANGED metrics
    /\ UNCHANGED <<config, pub_queue, publishers, subscriber, inbound, sub_channel,
                   sub_log, delivered, attempts_enqueued, publish_calls>>

\* the server passes a published message to the subscriber's connection when
\* the subscriber is subscribed to the message's channel
ServerDelivers(message) ==
    IF subscriber.subscribed /\ message.channel \in subscriber.channels
    THEN Append(inbound, message)
    ELSE inbound

\* conn.publish answers; the handle goes back to the pool; the metrics
WorkerPublish(w, ok) ==
    /\ workers[w].pc = "publish"
    /\ pub_connections' = ReturnHandle(pub_connections)
    /\ metrics' = IF ok THEN [metrics EXCEPT !.messages_published = @ + 1]
                  ELSE [metrics EXCEPT !.publish_errors = @ + 1]
    /\ inbound' = IF ok THEN ServerDelivers(workers[w].message) ELSE inbound
    /\ workers' = [workers EXCEPT ![w].pc = "recv", ![w].message = NoMessage]
    /\ UNCHANGED <<config, pub_queue, publishers, subscriber, sub_channel, sub_log,
                   delivered, attempts_enqueued, publish_calls>>

\* the channels run_subscriber subscribes to
SubscriberChannels(cfg, event_types) ==
    IF cfg.sharded_channels
    THEN {cfg.channel_prefix \o ":" \o EventTypeName(event_type) : event_type \in event_types}
    ELSE {cfg.channel_prefix}

\* create_subscriber: the channel to the consumer and the spawned run_subscriber
\* with retry_count = 0 and retry_delay = 100 ms
create_subscriber(event_types) ==
    /\ config # NoConfig
    /\ subscriber.pc = "none"
    /\ subscriber' = [NoSubscriber EXCEPT !.pc = "connect", !.event_types = event_types]
    /\ UNCHANGED <<config, pub_queue, metrics, pub_connections, publishers, workers,
                   inbound, sub_channel, sub_log, delivered, attempts_enqueued,
                   publish_calls>>

Min(a, b) == IF a <= b THEN a ELSE b

\* the failure branches of run_subscriber: retry_count += 1; give up at
\* max_retries, otherwise sleep retry_delay, double it up to 5 s and go to the
\* top of the connection loop
RetryOrGiveUp(sub) ==
    IF sub.retry_count + 1 >= MAX_RETRIES
    THEN [sub EXCEPT !.pc = "exited", !.retry_count = @ + 1, !.failures = @ + 1]
    ELSE [sub EXCEPT !.pc = "connect", !.retry_count = @ + 1, !.failures = @ + 1,
                     !.last_sleep = sub.retry_delay,
                     !.retry_delay = Min(sub.retry_delay * 2, RETRY_DELAY_CAP)]

\* client.get_async_connection().await answers: Ok resets retry_count and
\* retry_delay, Err is a failed attempt
SubscriberConnect(ok) ==
    /\ subscriber.pc = "connect"
    /\ ~ok => subscriber.failures < MaxFailures
    /\ subscriber' = IF ok
                     THEN [subscriber EXCEPT !.pc = "subscribe", !.retry_count = 0,
                                             !.retry_delay = FIRST_RETRY_DELAY]
                     ELSE RetryOrGiveUp(subscriber)
    /\ UNCHANGED <<config, pub_queue, metrics, pub_connections, publishers, workers,
                   inbound, sub_channel, sub_log, delivered, attempts_enqueued,
                   publish_calls>>

\* the subscribe loop over the channels: all subscribed, or one failed
SubscriberSubscribe(ok) ==
    /\ subscriber.pc = "subscribe"
    /\ ~ok => subscriber.failures < MaxFailures
    /\ subscriber' = IF ok
                     THEN [subscriber EXCEPT
                              !.pc = "listening", !.subscribed = TRUE, !.failures = 0,
                              !.channels = SubscriberChannels(config, subscriber.event_types)]
                     ELSE RetryOrGiveUp(subscriber)
    /\ UNCHANGED <<config, pub_queue, metrics, pub_connections, publishers, workers,
                   inbound, sub_channel, sub_log, delivered, attempts_enqueued,
                   publish_calls>>

\* the message stream ends: the connection was dropped; sleep 100 ms and go to
\* the top of the connection loop
SubscriberDisconnect ==
    /\ subscriber.pc = "listening"
    /\ subscriber' = [subscriber EXCEPT !.pc = "connect", !.subscribed = FALSE,
                                        !.channels = {}, !.last_sleep = 100]
    /\ inbound' = <<>>
    /\ UNCHANGED <<config, pub_queue, metrics, pub_connections, publishers, workers,
                   sub_channel, sub_log, delivered, attempts_enqueued, publish_calls>>

\* bincode::deserialize / serde_json::from_slice into a StreamEvent. The JSON
\* of one StreamEvent is an object and gives the event back; the JSON of a
\* Vec<StreamEvent> is an array of objects, whose first element is not an
\* EventType. With the binary protocol the payload field is a
\* serde_json::Value, which deserializes through deserialize_any, and bincode
\* has no deserialize_any: every payload is refused.
Decode(cfg, message) ==
    IF ~cfg.binary_protocol /\ message.shape = "event"
    THEN [ok |-> TRUE, event |-> message.events[1]]
    ELSE [ok |-> FALSE, event |-> StreamEvent(Absent, 0)]

\* tx.send(event).await: ready only when the channel has room
SendReady(ch) == Len(ch) < SUBSCRIBER_CHANNEL_SIZE

\* tx.try_send(event): answers at once whatever the channel holds
TrySendReady(ch) == TRUE

\* a channel that puts the newest event first
PushFront(ch, event) == <<event>> \o ch

\* the channel after a successful try_send
Enqueue(ch, event) == Append(ch, event)

\* one turn of `while let Some(msg) = msg_stream.next().await`: decode, keep
\* the event when the channels are not sharded or the type is the subscriber's
\* own, try_send it; a full channel drops it with a warning (the consumer keeps
\* the receiver for the whole run, so the channel is never closed)
SubscriberLoop ==
    /\ subscriber.pc = "listening"
    /\ inbound # <<>>
    /\ TrySendReady(sub_channel)
    /\ inbound' = Tail(inbound)
    /\ LET decoded == Decode(config, Head(inbound))
           wanted == \/ ~config.sharded_channels
                     \/ decoded.event.event_type \in subscriber.event_types
       IN  IF ~decoded.ok
           THEN /\ sub_log' = [sub_log EXCEPT !.undecoded = @ + 1]
                /\ UNCHANGED <<sub_channel, delivered>>
           ELSE IF ~wanted
           THEN UNCHANGED <<sub_channel, sub_log, delivered>>
           ELSE IF Len(sub_channel) < SUBSCRIBER_CHANNEL_SIZE
           THEN /\ sub_channel' = Enqueue(sub_channel, decoded.event)
                /\ delivered' = Append(delivered, decoded.event)
                /\ UNCHANGED sub_log
           ELSE /\ sub_log' = [sub_log EXCEPT !.dropped = @ + 1]
                /\ UNCHANGED <<sub_channel, delivered>>
    /\ UNCHANGED <<config, pub_queue, metrics, pub_connections, publishers, workers,
                   subscriber, attempts_enqueued, publish_calls>>

\* RedisPubSubSubscriber::next_event: the consumer takes the oldest event
next_event ==
    /\ sub_channel # <<>>
    /\ sub_channel' = Tail(sub_channel)
    /\ UNCHANGED <<config, pub_queue, metrics, pub_connections, publishers, workers,
                   subscriber, inbound, sub_log, delivered, attempts_enqueued,
                   publish_calls>>

\* the configurations of the runs that look at queue and channels: JSON, a
\* pool as large as the number of workers
PubSubConfigs ==
    {cfg \in Configs : /\ ~cfg.binary_protocol
                       /\ cfg.connection_pool_size = CONNECTION_POOL_SIZE}

\* the service with two callers of publish_event and a subscriber whose
\* connection and subscriptions succeed and whose consumer is slow
NextPubSub ==
    /\ \/ \E cfg \in PubSubConfigs : RedisPubSubServiceNew(cfg)
       \/ \E p \in Publishers, event_type \in HelperEventTypes : PublishEnter(p, event_type)
       \/ \E p \in Publishers : PublishSend(p)
       \/ \E p \in Publishers : PublishReturn(p)
       \/ \E w \in Workers : WorkerRecv(w)
       \/ \E w \in Workers : WorkerTake(w)
       \/ \E w \in Workers, ok \in BOOLEAN : WorkerPublish(w, ok)
       \/ \E event_types \in SubscriberEventTypes : create_subscriber(event_types)
       \/ SubscriberConnect(TRUE)
       \/ SubscriberSubscribe(TRUE)
       \/ SubscriberLoop
    /\ UNCHANGED <<wideVars, prodVars, cacheVars, lifeVars, consVars, preVars>>

\* the configurations of the runs with batches: one prefix, both protocols,
\* pools of every size
BatchConfigs == {cfg \in Configs : cfg.channel_prefix = "inj:exchange"}

\* one caller that uses publish_event and publish_events_batch, the workers,
\* and a subscriber whose connection and subscriptions succeed
NextBatch ==
    /\ \/ \E cfg \in BatchConfigs : RedisPubSubServiceNew(cfg)
       \/ \E event_type \in {2, 3} : PublishEnter("sink", event_type)
       \/ PublishSend("sink")
       \/ PublishReturn("sink")
       \/ \E event_types \in BatchEventTypes : PublishBatchEnter("sink", event_types)
       \/ PublishBatchSend("sink")
       \/ PublishBatchReturn("sink")
       \/ \E w \in Workers : WorkerRecv(w)
       \/ \E w \in Workers : WorkerTake(w)
       \/ \E w \in Workers, ok \in BOOLEAN : WorkerPublish(w, ok)
       \/ \E event_types \in SubscriberEventTypes : create_subscriber(event_types)
       \/ SubscriberConnect(TRUE)
       \/ SubscriberSubscribe(TRUE)
       \/ SubscriberLoop
       \/ next_event
    /\ UNCHANGED <<wideVars, prodVars, cacheVars, lifeVars, consVars, preVars>>

\* the configurations of the subscriber's runs: JSON, one prefix
SubscriberConfigs ==
    {cfg \in Configs : /\ ~cfg.binary_protocol
                       /\ cfg.channel_prefix = "inj:exchange"
                       /\ cfg.connection_pool_size = CONNECTION_POOL_SIZE}

\* one publisher and a subscriber whose connection can fail, fail to subscribe
\* and be dropped
NextSubscriber ==
    /\ \/ \E cfg \in SubscriberConfigs : RedisPubSubServiceNew(cfg)
       \/ \E event_type \in {2, 3} : PublishEnter("sink", event_type)
       \/ PublishSend("sink")
       \/ PublishReturn("sink")
       \/ \E w \in Workers : WorkerRecv(w)
       \/ \E w \in Workers : WorkerTake(w)
       \/ \E w \in Workers : WorkerPublish(w, TRUE)
       \/ \E event_types \in SubscriberEventTypes : create_subscriber(event_types)
       \/ \E ok \in BOOLEAN : SubscriberConnect(ok)
       \/ \E ok \in BOOLEAN : SubscriberSubscribe(ok)
       \/ SubscriberDisconnect
       \/ SubscriberLoop
       \/ next_event
    /\ UNCHANGED <<wideVars, prodVars, cacheVars, lifeVars, consVars, preVars>>

(***************************************************************************)
(* Claims about the pub/sub service                                        *)
(***************************************************************************)

\* C21: a caller of publish_event is never held up by a full outbound queue:
\* no caller is at the send while the queue has no room (a full queue is
\* answered with an error at once and counted in publish_errors).
C21_FullQueueNeverBlocks ==
    \A p \in Publishers :
        publishers[p].pc = "send" => Len(pub_queue) < PUBLISHER_QUEUE_SIZE

\* C22: in every state messages_published + publish_errors is at least
\* attempts_enqueued - queue_depth.
C22_MetricsCoverEnqueued ==
    metrics.messages_published + metrics.publish_errors
        >= attempts_enqueued - metrics.queue_depth

\* the handles that workers hold between the pop and the push
HeldHandles == Cardinality({w \in Workers : workers[w].pc = "publish"})

\* C32: the handles in the pool plus the handles held by workers are the
\* configured pool size in every state; a worker takes one handle per message
\* it dequeued and gives it back after the publish whatever the result; a
\* worker that finds the pool empty records one publish error and goes to the
\* next message without publishing.
C32_PoolConserved ==
    [][/\ config' # NoConfig =>
              pub_connections' + HeldHandles' = config'.connection_pool_size
       /\ \A w \in Workers :
              /\ (workers[w].pc = "take" /\ workers'[w].pc = "publish")
                     => pub_connections' = pub_connections - 1
              /\ (workers[w].pc = "publish" /\ workers'[w].pc # "publish")
                     => pub_connections' = pub_connections + 1
              /\ (workers[w].pc = "take" /\ pub_connections = 0 /\ workers'[w] # workers[w])
                     => /\ workers'[w].pc = "recv"
                        /\ metrics' = [metrics EXCEPT !.publish_errors = @ + 1]
                        /\ pub_connections' = 0
                        /\ inbound' = inbound
      ]_vars

\* with a pool of one handle, a worker has skipped a message while the other
\* worker held the handle, and a failed publish has given its handle back
C32_Witness ==
    /\ config # NoConfig
    /\ config.connection_pool_size < PUBLISHER_WORKERS
    /\ \E w \in Workers : workers[w].warned
    /\ metrics.publish_errors >= 2
    /\ metrics.messages_published = 0
    /\ pub_connections = config.connection_pool_size

Backoff(k) ==
    Min(FIRST_RETRY_DELAY * (2 ^ (k - 1)), RETRY_DELAY_CAP)

\* C34: a subscriber that fails to establish its subscription MAX_RETRIES
\* times in a row, by failed connections or by failed subscriptions, has
\* given up; before that, the sleep after its k-th failure in a row was
\* min(100 * 2^(k-1), 5000) ms.
C34_RetriesBounded ==
    /\ subscriber.failures >= MAX_RETRIES => subscriber.pc = "exited"
    /\ (subscriber.failures \in 1..(MAX_RETRIES - 1) /\ subscriber.pc # "exited")
          => subscriber.last_sleep = Backoff(subscriber.failures)

\* C38: publish_events_batch makes one queue entry per distinct channel of
\* the batch, holding the channel's events in batch order, and what such an
\* entry carries is accepted by the subscriber's decoding as the StreamEvent
\* that was enqueued, as the entry of publish_event for that event is.
C38_BatchDecodesLikeSingle ==
    /\ \A p \in Publishers :
           publishers[p].pc = "join" =>
               \A m1 \in publishers[p].pending :
                   /\ m1.events = EventsOfChannel(config, publishers[p].batch, m1.channel)
                   /\ \A m2 \in publishers[p].pending : m1.channel = m2.channel => m1 = m2
    /\ \A i \in DOMAIN inbound :
           inbound[i].shape = "list" =>
               /\ Decode(config, inbound[i]).ok
               /\ \E j \in DOMAIN inbound[i].events :
                      Decode(config, inbound[i]).event = inbound[i].events[j]

\* the channel the specification names for an event type
ChannelName(cfg, event_type) ==
    IF cfg.sharded_channels
    THEN cfg.channel_prefix \o ":" \o EventTypeName(event_type)
    ELSE cfg.channel_prefix

PubSubMessages ==
    {pub_queue[i] : i \in 1..Len(pub_queue)}
        \cup {publishers[p].message : p \in {q \in Publishers : publishers[q].pc \in {"send", "sent"}}}
        \cup UNION {publishers[p].pending : p \in Publishers}
        \cup {workers[w].message : w \in {v \in Workers : workers[v].pc \in {"take", "publish"}}}

\* C26: the channel of every message is "{prefix}:{EventTypeName}" with
\* sharding on and "{prefix}" with sharding off (inj:exchange and PriceUpdate
\* give inj:exchange:PriceUpdate), and a subscriber of an event type is
\* subscribed to the channel its publishers use.
C26_ChannelFromTypeAndConfig ==
    /\ \A m \in PubSubMessages :
           /\ m.channel = ChannelName(config, m.event_type)
           /\ (config.sharded_channels /\ config.channel_prefix = "inj:exchange"
                 /\ m.event_type = 3) => m.channel = "inj:exchange:PriceUpdate"
           /\ ~config.sharded_channels => m.channel = config.channel_prefix
           /\ (subscriber.subscribed /\ m.event_type \in subscriber.event_types)
                 => m.channel \in subscriber.channels
    /\ subscriber.subscribed =>
           subscriber.channels =
               IF config.sharded_channels
               THEN {ChannelName(config, event_type) : event_type \in subscriber.event_types}
               ELSE {config.channel_prefix}

\* a PriceUpdate published on inj:exchange:PriceUpdate has reached a
\* subscriber of PriceUpdate
C26_Witness ==
    /\ config.sharded_channels
    /\ config.channel_prefix = "inj:exchange"
    /\ subscriber.subscribed
    /\ 3 \in subscriber.event_types
    /\ "inj:exchange:PriceUpdate" \in subscriber.channels
    /\ delivered # <<>>
    /\ delivered[1].event_type = 3

(***************************************************************************)
(* Part VII.  The wide-column sink: ScyllaDBProcessor                      *)
(* (injective-consumer/src/scylladb_consumer/mod.rs).  The session holds   *)
(* four tables; a table is the set of its rows and an INSERT replaces the  *)
(* row of the same primary key.  The numeric columns are text written by   *)
(* f64::to_string and read back by str::parse, which returns the value     *)
(* written, so a column holds the number.                                  *)
(***************************************************************************)

\* block heights of the envelopes of one run
WideHeights == 1..MaxHeight

\* scylladb_consumer/mod.rs:169: LIMIT 1000
SELECT_LIMIT == 1000

\* raw decimals of the payloads, multiples of the scale they are divided by:
\* mark prices 4 and 6 (and 0, which is refused), a long position of
\* quantity 1 and margin 2 entered at 4 or at 6 (liquidation price 4 or 8
\* under the ratio 0.50), and a closed position
WideMarketPayloads ==
    [market_id : {"m1"}, mark_price : {0, 4 * PRICE_DECIMAL, 6 * PRICE_DECIMAL},
     maintenance_margin_ratio : MarginRatios, cumulative_funding : Fundings]

WidePositionPayloads ==
    [market_id : {"m1"}, subaccount_id : SubaccountIds, is_long : {TRUE},
     quantity : {0, QUANTITY_DECIMAL}, entry_price : {4 * PRICE_DECIMAL, 6 * PRICE_DECIMAL},
     margin : {2 * PRICE_DECIMAL}, cumulative_funding_entry : {0}]

\* scylladb_consumer/mod.rs:29-109: the tables of initialize_schema, empty
EmptySession ==
    [markets |-> {}, positions |-> {}, market_positions |-> {},
     liquidatable_positions |-> {}]

NoWideEvent ==
    [kind |-> "none", mismatch |-> FALSE, applied |-> FALSE, market_id |-> "",
     mark_price |-> 0, maintenance_margin_ratio |-> 0, cumulative_funding |-> 0]

InitWide ==
    /\ session = EmptySession
    /\ lastWide = NoWideEvent

\* primary keys (scylladb_consumer/mod.rs:45, 64, 84, 103)
MarketKey == <<"market_id", "block_height">>
PositionKey == <<"market_id", "subaccount_id", "block_height">>
LiquidatableKey == <<"market_id", "subaccount_id">>

\* the columns of a key of a row
KeyOf(row, key) == [i \in DOMAIN key |-> row[key[i]]]

\* INSERT INTO: the row takes the place of the row of its primary key
Insert(table, row, key) == {r \in table : KeyOf(r, key) # KeyOf(row, key)} \cup {row}

\* UPDATE ... SET liquidation_price = ? WHERE market_id = ? AND subaccount_id = ?
\* AND block_height = ?
UpdateLiquidationPrice(table, key, liquidation_price) ==
    {IF KeyOf(r, PositionKey) = key THEN [r EXCEPT !.liquidation_price = liquidation_price] ELSE r :
        r \in table}

\* DELETE FROM liquidatable_positions WHERE market_id = ? AND subaccount_id = ?
Delete(table, market_id, subaccount_id) ==
    {r \in table : KeyOf(r, LiquidatableKey) # <<market_id, subaccount_id>>}

\* the order of the text subaccount ids
SubaccountRank(subaccount_id) == IF subaccount_id = "s1" THEN 1 ELSE 2

\* CLUSTERING ORDER BY (subaccount_id ASC, block_height DESC)
ClusteredBefore(r, q) ==
    \/ SubaccountRank(r.subaccount_id) < SubaccountRank(q.subaccount_id)
    \/ /\ r.subaccount_id = q.subaccount_id
       /\ r.block_height >= q.block_height

RECURSIVE InClusteringOrder(_)
InClusteringOrder(rows) ==
    IF rows = {} THEN <<>>
    ELSE LET first == CHOOSE r \in rows : \A q \in rows : ClusteredBefore(r, q)
         IN  <<first>> \o InClusteringOrder(rows \ {first})

\* scylladb_consumer/mod.rs:166-189: every stored version of every position
\* of the market, in clustering order, up to the limit
SelectMarketPositions(table, market_id) ==
    LET rows == InClusteringOrder({r \in table : r.market_id = market_id})
    IN  SubSeq(rows, 1, Min(Len(rows), SELECT_LIMIT))

\* scylladb_consumer/mod.rs:345-377: the newest row of the market
\* (CLUSTERING ORDER BY block_height DESC, LIMIT 1), or the defaults
SelectMarket(table, market_id) ==
    LET rows == {r \in table : r.market_id = market_id}
    IN  IF rows = {}
        THEN [mark_price |-> 0, maintenance_margin_ratio |-> DefaultMarginRatio,
              cumulative_funding |-> 0]
        ELSE CHOOSE r \in rows : \A q \in rows : q.block_height <= r.block_height

LiquidatableRow(market_id, row, liquidation_price, mark_price) ==
    [market_id |-> market_id, subaccount_id |-> row.subaccount_id,
     block_height |-> row.block_height, is_long |-> row.is_long,
     quantity |-> row.quantity, entry_price |-> row.entry_price, margin |-> row.margin,
     liquidation_price |-> liquidation_price, mark_price |-> mark_price]

\* scylladb_consumer/mod.rs:190-315: the loop over the selected rows
RECURSIVE ReevaluateRows(_, _, _, _, _, _)
ReevaluateRows(s, rows, market_id, mark_price, maintenance_margin_ratio, cumulative_funding) ==
    IF rows = <<>> THEN s
    ELSE LET row == Head(rows)
             liquidation_price ==
                 calculate_liquidation_price(row.is_long, row.entry_price, row.margin,
                     row.quantity, maintenance_margin_ratio, cumulative_funding,
                     row.cumulative_funding_entry)
             updated ==
                 [s EXCEPT !.positions =
                               UpdateLiquidationPrice(@, KeyOf(row, PositionKey), liquidation_price),
                           !.market_positions =
                               UpdateLiquidationPrice(@, KeyOf(row, PositionKey), liquidation_price)]
             after ==
                 IF row.quantity <= 0 \/ row.entry_price <= 0 \/ row.margin <= 0
                 THEN s
                 ELSE IF is_liquidatable(row.is_long, liquidation_price, mark_price)
                      THEN [updated EXCEPT !.liquidatable_positions =
                               Insert(@, LiquidatableRow(market_id, row, liquidation_price,
                                                         mark_price), LiquidatableKey)]
                      ELSE [updated EXCEPT !.liquidatable_positions =
                               Delete(@, market_id, row.subaccount_id)]
         IN  ReevaluateRows(after, Tail(rows), market_id, mark_price,
                            maintenance_margin_ratio, cumulative_funding)

\* scylladb_consumer/mod.rs:112-318
WideProcessDerivativeMarket(s, market, height) ==
    LET cumulative_funding == Scaled(market.cumulative_funding, PRICE_DECIMAL)
        mark_price == Scaled(market.mark_price, PRICE_DECIMAL)
        maintenance_margin_ratio == market.maintenance_margin_ratio
        inserted ==
            [s EXCEPT !.markets =
                Insert(@, [market_id |-> market.market_id, block_height |-> height,
                           mark_price |-> mark_price,
                           maintenance_margin_ratio |-> maintenance_margin_ratio,
                           cumulative_funding |-> cumulative_funding], MarketKey)]
    IN  IF mark_price <= 0 \/ maintenance_margin_ratio <= 0
        THEN s
        ELSE ReevaluateRows(inserted,
                 SelectMarketPositions(inserted.market_positions, market.market_id),
                 market.market_id, mark_price, maintenance_margin_ratio, cumulative_funding)

\* scylladb_consumer/mod.rs:320-496
WideProcessPosition(s, position, height) ==
    LET quantity == Scaled(position.quantity, QUANTITY_DECIMAL)
        entry_price == Scaled(position.entry_price, PRICE_DECIMAL)
        margin == Scaled(position.margin, PRICE_DECIMAL)
        cumulative_funding_entry == Scaled(position.cumulative_funding_entry, PRICE_DECIMAL)
        market == SelectMarket(s.markets, position.market_id)
        liquidation_price ==
            calculate_liquidation_price(position.is_long, entry_price, margin, quantity,
                market.maintenance_margin_ratio, market.cumulative_funding,
                cumulative_funding_entry)
        row == [market_id |-> position.market_id, subaccount_id |-> position.subaccount_id,
                block_height |-> height, is_long |-> position.is_long,
                quantity |-> quantity, entry_price |-> entry_price, margin |-> margin,
                cumulative_funding_entry |-> cumulative_funding_entry,
                liquidation_price |-> liquidation_price]
        inserted == [s EXCEPT !.positions = Insert(@, row, PositionKey),
                              !.market_positions = Insert(@, row, PositionKey)]
    IN  IF quantity <= 0 \/ entry_price <= 0 \/ margin <= 0
        THEN s
        ELSE IF is_liquidatable(position.is_long, liquidation_price, market.mark_price)
             THEN [inserted EXCEPT !.liquidatable_positions =
                      Insert(@, LiquidatableRow(position.market_id, row, liquidation_price,
                                                market.mark_price), LiquidatableKey)]
             ELSE [inserted EXCEPT !.liquidatable_positions =
                      Delete(@, position.market_id, position.subaccount_id)]

RECURSIVE WideProcessEach(_, _, _, _)
WideProcessEach(s, kind, payload, height) ==
    IF payload = <<>> THEN s
    ELSE WideProcessEach(
             IF kind = "DerivativeMarket"
             THEN WideProcessDerivativeMarket(s, Head(payload), height)
             ELSE WideProcessPosition(s, Head(payload), height),
             kind, Tail(payload), height)

\* scylladb_consumer/mod.rs:503-535: MessageProcessor::process_message takes
\* the variant of the payload and never reads message_type
WideProcessMessage(s, message, height) ==
    IF message.type \in {"DerivativeMarket", "ExchangePosition"}
    THEN WideProcessEach(s, message.type, message.payload, height)
    ELSE s

WideReceive(message, height) ==
    /\ session' = WideProcessMessage(session, message, height)
    /\ lastWide' =
           IF message.type = "DerivativeMarket" /\ message.payload # <<>>
           THEN LET market == message.payload[Len(message.payload)]
                IN  [kind |-> message.type,
                     mismatch |-> message.message_type # message.type,
                     applied |-> Scaled(market.mark_price, PRICE_DECIMAL) > 0
                                     /\ market.maintenance_margin_ratio > 0,
                     market_id |-> market.market_id,
                     mark_price |-> Scaled(market.mark_price, PRICE_DECIMAL),
                     maintenance_margin_ratio |-> market.maintenance_margin_ratio,
                     cumulative_funding |-> Scaled(market.cumulative_funding, PRICE_DECIMAL)]
           ELSE [NoWideEvent EXCEPT !.kind = message.type,
                                    !.mismatch = message.message_type # message.type]
    /\ UNCHANGED <<pubVars, prodVars, cacheVars, lifeVars, consVars, preVars>>

WideMarketEnvelopes ==
    {[message_type |-> "DerivativeMarket", type |-> "DerivativeMarket", id |-> 0,
      payload |-> <<p>>] : p \in WideMarketPayloads}

WidePositionEnvelopes ==
    {[message_type |-> "ExchangePosition", type |-> "ExchangePosition", id |-> 0,
      payload |-> <<p>>] : p \in WidePositionPayloads}

\* envelopes whose payload is not the variant of their message_type
WideMalformedEnvelopes ==
    {[message_type |-> "DerivativeTrade", type |-> "DerivativeMarket", id |-> 0,
      payload |-> <<p>>] : p \in WideMarketPayloads}
    \cup {[message_type |-> "DerivativeMarket", type |-> "ExchangePosition", id |-> 0,
           payload |-> <<p>>] : p \in {q \in WidePositionPayloads : q.subaccount_id = "s1"}}

WideReceiveMarket ==
    \E message \in WideMarketEnvelopes, height \in WideHeights :
        WideReceive(message, height)

WideReceivePosition ==
    \E message \in WidePositionEnvelopes, height \in WideHeights :
        WideReceive(message, height)

WideReceiveOther ==
    \E message \in OtherEnvelopes, height \in WideHeights :
        WideReceive(message, height)

WideReceiveMalformed ==
    \E message \in WideMalformedEnvelopes : WideReceive(message, 1)

\* a well-formed position envelope of the first subaccount and height
WideReceiveFirstPosition ==
    \E message \in WidePositionEnvelopes :
        /\ message.payload[1].subaccount_id = "s1"
        /\ WideReceive(message, 1)

NextWide == WideReceiveMarket \/ WideReceivePosition \/ WideReceiveOther

\* both sinks fed with well-formed and with malformed envelopes
NextMalformed ==
    \/ ReceiveSingleMarket
    \/ ReceiveMalformed
    \/ WideReceiveFirstPosition
    \/ WideReceiveMalformed

(***************************************************************************)
(* The wide-column store                                                   *)
(***************************************************************************)

\* the stored versions of the position of subaccount s in market m
Versions(m, s) ==
    {r \in session.market_positions : r.market_id = m /\ r.subaccount_id = s}

\* the version of the highest block_height
Latest(m, s) ==
    CHOOSE r \in Versions(m, s) : \A q \in Versions(m, s) : q.block_height <= r.block_height

HasLiquidatableRow(m, s) ==
    \E l \in session.liquidatable_positions : l.market_id = m /\ l.subaccount_id = s

\* C37: after a DerivativeMarket event of market m has been processed,
\* liquidatable_positions holds a row of (m, s) exactly when the stored position
\* of (m, s) of the highest block_height is liquidatable at the new mark price,
\* however many versions of the position are stored.
C37_LiquidatableMatchesLatest ==
    (lastWide.kind = "DerivativeMarket" /\ lastWide.applied) =>
        \A s \in SubaccountIds :
            HasLiquidatableRow(lastWide.market_id, s) <=>
                /\ Versions(lastWide.market_id, s) # {}
                /\ LET latest == Latest(lastWide.market_id, s)
                   IN  is_liquidatable(latest.is_long,
                           calculate_liquidation_price(latest.is_long, latest.entry_price,
                               latest.margin, latest.quantity,
                               lastWide.maintenance_margin_ratio,
                               lastWide.cumulative_funding,
                               latest.cumulative_funding_entry),
                           lastWide.mark_price)

\* the same with one stored version of every position
C37_OneVersion ==
    (/\ lastWide.kind = "DerivativeMarket"
     /\ lastWide.applied
     /\ \A s \in SubaccountIds : Cardinality(Versions(lastWide.market_id, s)) <= 1)
        => C37_LiquidatableMatchesLatest

\* C31: an envelope whose payload is not the variant of its message_type is
\* skipped: whatever the message_type and the variant, the step that receives
\* it applies none of its payload to the cache, hands no event of it to
\* pub/sub, and applies none of it to the tables of the wide-column store.
C31_MalformedSkipped ==
    [][
       /\ (lastEvent'.mismatch /\ cacheVars' # cacheVars) =>
              /\ store' = store
              /\ lastEvent'.batch_events = 0
              /\ lastEvent'.alerts = <<>>
       /\ (lastWide'.mismatch /\ wideVars' # wideVars) => session' = session
      ]_vars

(***************************************************************************)
(* Specifications                                                          *)
(***************************************************************************)

Init ==
    /\ InitProducer /\ InitCache /\ InitIngester /\ InitConsumer /\ InitPreloader
    /\ InitPubSub /\ InitWide

\* the producer runs in the ingester's process; the cache plays no part in it
InitFresh == Init /\ store = EmptyStore

SpecProducer == InitFresh /\ [][NextProducer]_vars

SpecCall == InitFresh /\ [][NextCall]_vars

SpecApi == InitFresh /\ [][NextApi]_vars

SpecCache == Init /\ [][NextCache]_vars

SpecEnvelope == Init /\ [][NextEnvelope]_vars

SpecIngester == InitFresh /\ [][NextIngester]_vars

SpecCatalog == InitFresh /\ [][NextCatalog]_vars

SpecConsumer == InitFresh /\ [][NextConsumer]_vars

SpecPubSub == InitFresh /\ [][NextPubSub]_vars

SpecSubscriber == InitFresh /\ [][NextSubscriber]_vars

SpecBatch == InitFresh /\ [][NextBatch]_vars

SpecWide == InitFresh /\ [][NextWide]_vars

SpecMalformed == InitFresh /\ [][NextMalformed]_vars

\* the runtime keeps running the poll loop, the processor task and the spawned
\* store tasks; when the signal is sent is up to the operator
SpecConsumerFair ==
    /\ SpecConsumer
    /\ WF_vars(ObserveShutdown /\ UNCHANGED <<wideVars, pubVars, prodVars, cacheVars, lifeVars, preVars>>)
    /\ WF_vars(ConsumerReturn /\ UNCHANGED <<wideVars, pubVars, prodVars, cacheVars, lifeVars, preVars>>)
    /\ WF_vars(Hand /\ UNCHANGED <<wideVars, pubVars, prodVars, cacheVars, lifeVars, preVars>>)
    /\ WF_vars(RecordError /\ UNCHANGED <<wideVars, pubVars, prodVars, cacheVars, lifeVars, preVars>>)
    /\ WF_vars((\E n \in 1..MaxItems : process_message_spawn(n))
                 /\ UNCHANGED <<wideVars, pubVars, prodVars, cacheVars, lifeVars, preVars>>)

\* the runtime keeps running every spawned task that can take a step: the
\* heartbeat's timer fires, the broker client answers, a pending shutdown
\* message is eventually the branch that select! takes. Stream messages,
\* stream errors and Ctrl+C are the environment's and under no obligation.
SpecIngesterFair ==
    /\ SpecIngester
    /\ WF_vars(TimerFires)
    /\ WF_vars(HeartbeatLoop)
    /\ WF_vars(StreamStep)
    /\ WF_vars(\E ok \in BOOLEAN : StreamConnect(ok))
    /\ SF_vars(StreamShutdown)
    /\ WF_vars(MainReturn)

====
